---- MODULE Spec2Model ----
(***************************************************************************)
(* Model of the argus-go event processor (internal/processor), the         *)
(* in-memory state store and the in-memory alert repository.               *)
(*                                                                         *)
(* A handler invocation is a small step machine: one step per call to a    *)
(* collaborator (state store, repository, notifier), which are the         *)
(* suspension points of the Go code.  Spec runs a handler to completion in *)
(* one action (a single consumer); ConcSpec lets several consumers take    *)
(* the same steps interleaved.                                             *)
(*                                                                         *)
(* Abstractions: time is a tick counter (one tick = one minute);           *)
(* UpdatedAt is not carried (it is written, never read); a uuid is the     *)
(* next value of a counter; the "%s:%s:%s" parent key is the triple.       *)
(***************************************************************************)
EXTENDS Integers, Sequences, FiniteSets, TLC

\* ------------------------------------------------------------------ bounds
MaxTime == 2
MaxMessages == 3
BufferSize == 2
MaxPublished == 3
MaxIngested == 2
MaxCallers == 1

\* ------------------------------------------------------- event universe
EventManagerIDs == {"em1", "em2"}
DedupKeys == {"a", "b", "c"}
Classes == {"db", "web"}
Summaries == {"s1"}
Consumers == {1, 2}

\* domain.ActionTrigger / ActionResolve, AlertType*, AlertStatus*
ActionTrigger == "trigger"
ActionResolve == "resolve"
AlertTypeParent == "parent"
AlertTypeChild == "child"
AlertStatusActive == "active"
AlertStatusResolved == "resolved"

\* A nil pointer.  Every other record has a different set of fields.
Nil == [nil |-> TRUE]

\* The event managers and grouping rules held by the repositories
\* (the data of setupTestData, plus a second tenant whose rule names a
\* field ExtractGroupingValue does not know).
EventManagerRepo ==
    [em1 |-> [id |-> "em1", groupingRuleID |-> "rule1"],
     em2 |-> [id |-> "em2", groupingRuleID |-> "rule2"],
     em3 |-> [id |-> "em3", groupingRuleID |-> "rule3"]]

GroupingRuleRepo ==
    [rule1 |-> [id |-> "rule1", groupingKey |-> "class", timeWindowMinutes |-> 1],
     rule2 |-> [id |-> "rule2", groupingKey |-> "host", timeWindowMinutes |-> 1]]

\* domain.Event as accepted by the HTTP handler
Events ==
    [eventManagerID : {"em1"}, summary : Summaries, severity : {"high"},
     action : {ActionTrigger, ActionResolve}, class : Classes, dedupKey : DedupKeys]
    \cup
    {[eventManagerID |-> "em2", summary |-> "s1", severity |-> "high",
      action |-> action, class |-> IF k = "b" THEN "db" ELSE "web", dedupKey |-> k] :
        action \in {ActionTrigger, ActionResolve}, k \in {"b", "c"}}

\* GroupingRule.TimeWindow
TimeWindow(rule) == rule.timeWindowMinutes

\* Mutant: an unknown grouping key projects the class.
ExtractGroupingValue_DefaultsToClass(rule, event) ==
    CASE rule.groupingKey = "class" -> event.class
      [] rule.groupingKey = "severity" -> event.severity
      [] rule.groupingKey = "event_manager_id" -> event.eventManagerID
      [] OTHER -> event.class

\* GroupingRule.ExtractGroupingValue
ExtractGroupingValue(rule, event) ==
    CASE rule.groupingKey = "class" -> event.class
      [] rule.groupingKey = "severity" -> event.severity
      [] rule.groupingKey = "event_manager_id" -> event.eventManagerID
      [] OTHER -> ""

\* []byte(s) for the strings that occur as tenant ids and grouping values.
Bytes(s) ==
    CASE s = "" -> <<>>
      [] s = "em0" -> <<101, 109, 48>>
      [] s = "em1" -> <<101, 109, 49>>
      [] s = "em2" -> <<101, 109, 50>>
      [] s = "em3" -> <<101, 109, 51>>
      [] s = "db" -> <<100, 98>>
      [] s = "web" -> <<119, 101, 98>>
      [] s = "high" -> <<104, 105, 103, 104>>

\* sha256.Sum256: 32 bytes determined by the input.  The digest function
\* itself is replaced by a simple mixing of the input bytes; only its type
\* and its being a function of the input bytes are kept.
RECURSIVE Mix(_, _, _)
Mix(input, i, j) ==
    IF j > Len(input) THEN 7 * i + Len(input)
    ELSE (input[j] * (i + 2 * j) + 31 * Mix(input, i, j + 1)) % 256

Sum256(input) == [i \in 1..32 |-> Mix(input, i, 1) % 256]

\* Mutant: a byte below 16 is written as one digit.
hexByte_NoPad(byte) ==
    LET digits == <<"0", "1", "2", "3", "4", "5", "6", "7",
                    "8", "9", "a", "b", "c", "d", "e", "f">>
    IN  IF byte < 16 THEN <<digits[byte + 1]>>
        ELSE <<digits[(byte \div 16) + 1], digits[(byte % 16) + 1]>>

\* hex.EncodeToString: two lower-case hexadecimal digits per byte.
hexByte(byte) ==
    LET digits == <<"0", "1", "2", "3", "4", "5", "6", "7",
                    "8", "9", "a", "b", "c", "d", "e", "f">>
    IN  <<digits[(byte \div 16) + 1], digits[(byte % 16) + 1]>>

RECURSIVE hexEncodeToString(_)
hexEncodeToString(bytes) ==
    IF bytes = <<>> THEN <<>>
    ELSE hexByte(Head(bytes)) \o hexEncodeToString(Tail(bytes))

\* computePartitionKey: hex of the first 8 bytes of the digest of
\* eventManagerID + ":" + groupingValue.
computePartitionKey(eventManagerID, groupingValue) ==
    LET input == Bytes(eventManagerID) \o <<58>> \o Bytes(groupingValue)
        hash == Sum256(input)
    IN  hexEncodeToString(SubSeq(hash, 1, 8))

\* computePartitionKey for all tenant ids and grouping values that occur,
\* computed once.
partitionKeys ==
    [eventManagerID \in {"em0", "em1", "em2", "em3"},
     groupingValue \in {"", "db", "web", "high"} |->
        computePartitionKey(eventManagerID, groupingValue)]

\* Mutant: the partition key is derived from the dedup key.
InternalEvent_KeyOfDedupKey(event) ==
    LET em == EventManagerRepo[event.eventManagerID]
        rule == GroupingRuleRepo[em.groupingRuleID]
        gv == ExtractGroupingValue(rule, event)
    IN  [eventManagerID |-> event.eventManagerID, summary |-> event.summary,
         severity |-> event.severity, action |-> event.action,
         class |-> event.class, dedupKey |-> event.dedupKey,
         partitionKey |-> <<event.dedupKey>>,
         groupingValue |-> gv]

\* The InternalEvent IngestEvent publishes for an event (steps 1-5).
InternalEvent(event) ==
    LET em == EventManagerRepo[event.eventManagerID]
        rule == GroupingRuleRepo[em.groupingRuleID]
        gv == ExtractGroupingValue(rule, event)
    IN  [eventManagerID |-> event.eventManagerID, summary |-> event.summary,
         severity |-> event.severity, action |-> event.action,
         class |-> event.class, dedupKey |-> event.dedupKey,
         partitionKey |-> partitionKeys[event.eventManagerID, gv],
         groupingValue |-> gv]

\* Event.Validate: the first violation, "" for nil.
\* Mutant: the dedup key is not looked at.
Validate_IgnoresDedupKey(event) ==
    CASE event.eventManagerID = "" -> "ErrEmptyEventManagerID"
      [] event.summary = "" -> "ErrEmptySummary"
      [] event.severity \notin {"high", "medium", "low"} -> "ErrInvalidSeverity"
      [] event.action \notin {ActionTrigger, ActionResolve} -> "ErrInvalidAction"
      [] OTHER -> ""

Validate(event) ==
    CASE event.eventManagerID = "" -> "ErrEmptyEventManagerID"
      [] event.summary = "" -> "ErrEmptySummary"
      [] event.severity \notin {"high", "medium", "low"} -> "ErrInvalidSeverity"
      [] event.action \notin {ActionTrigger, ActionResolve} -> "ErrInvalidAction"
      [] event.dedupKey = "" -> "ErrEmptyDedupKey"
      [] OTHER -> ""

\* The events offered to IngestEvent: valid ones of tenant em1 (rule on
\* class) and em2 (rule on a field the event lacks), one of the unknown tenant
\* em0, one of tenant em3 whose rule does not exist, two invalid ones, a
\* resolve without summary and class, a trigger without class, and a resolve
\* that names only its dedup key and a summary.
IngestEvents ==
    {[eventManagerID |-> "em1", summary |-> "s1", severity |-> "high",
      action |-> ActionTrigger, class |-> "db", dedupKey |-> "a"],
     [eventManagerID |-> "em1", summary |-> "s2", severity |-> "low",
      action |-> ActionResolve, class |-> "db", dedupKey |-> "b"],
     [eventManagerID |-> "em1", summary |-> "s1", severity |-> "high",
      action |-> ActionTrigger, class |-> "web", dedupKey |-> "a"],
     [eventManagerID |-> "em1", summary |-> "s1", severity |-> "high",
      action |-> ActionTrigger, class |-> "db", dedupKey |-> ""],
     [eventManagerID |-> "em1", summary |-> "s1", severity |-> "high",
      action |-> "acknowledge", class |-> "db", dedupKey |-> "a"],
     [eventManagerID |-> "em1", summary |-> "", severity |-> "high",
      action |-> ActionResolve, class |-> "", dedupKey |-> "a"],
     [eventManagerID |-> "em1", summary |-> "s1", severity |-> "high",
      action |-> ActionTrigger, class |-> "", dedupKey |-> "a"],
     [eventManagerID |-> "em1", summary |-> "s1", severity |-> "high",
      action |-> ActionResolve, class |-> "", dedupKey |-> "a"]}
    \cup
    {[eventManagerID |-> em, summary |-> "s1", severity |-> "high",
      action |-> ActionTrigger, class |-> "db", dedupKey |-> "a"] :
        em \in {"em2", "em0", "em3"}}

\* ------------------------------------------------------------ variables
VARIABLES
    alerts,          \* StateStore.alerts: dedupKey -> AlertState
    parents,         \* StateStore.parents: parentKey -> parentEntry
    children,        \* StateStore.children: parent dedupKey -> set of dedupKeys
    pendingResolves, \* StateStore.pendingResolves: parent dedupKey -> PendingResolve
    repoAlerts,      \* AlertRepository.alerts: ID -> Alert
    byDedupKey,      \* AlertRepository.byDedupKey: dedupKey -> ID of the indexed Alert
    byParent,        \* AlertRepository.byParent: parent -> (dedupKey -> ID)
    minted,          \* dedupKey -> number of uuids minted for alerts of that key
    now,             \* the wall clock
    frames,          \* per consumer: the handler invocation it is in, or done
    received         \* messages the consumers of the group have fetched

\* The in-memory queue and the goroutines that use it.
VARIABLES
    queue,           \* Queue: messages (the channel: buffer and closed mark), closed, mu, wg
    publish,         \* per publisher: its Publish call (pc, msg, the call's ctx)
    start,           \* the consumer's Start call (pc, msg in the handler, its ctx)
    closeCall,       \* the Close call (pc)
    history,         \* what the calls did so far: order of sends and handler calls, results
    ingest           \* per caller: its IngestEvent call (pc, event, msg)

queueVars == <<queue, publish, start, closeCall, history>>

vars == <<alerts, parents, children, pendingResolves, repoAlerts, byDedupKey,
          byParent, minted, now, frames, received, queueVars, ingest>>

\* The shared stores as one value, threaded through a handler's steps.
Stores ==
    [alerts |-> alerts, parents |-> parents, children |-> children,
     pendingResolves |-> pendingResolves, repoAlerts |-> repoAlerts,
     byDedupKey |-> byDedupKey, byParent |-> byParent, minted |-> minted,
     now |-> now]

EmptyMap == [x \in {} |-> Nil]

\* uuid.New() returns a value no earlier call returned.  The model names it by
\* the dedup key it is minted for and a per-key serial number, so that states
\* that differ only in the order in which uuids were minted coincide.
Minted(st, dedupKey) ==
    IF dedupKey \in DOMAIN st.minted THEN st.minted[dedupKey] ELSE 0

uuidNew(st, dedupKey) == <<dedupKey, Minted(st, dedupKey) + 1>>

AfterUuidNew(st, dedupKey) ==
    [st EXCEPT !.minted = (dedupKey :> (Minted(st, dedupKey) + 1)) @@ @]

\* --------------------------------------------- memory.StateStore methods
parentKey(eventManagerID, groupingKey, groupingValue) ==
    <<eventManagerID, groupingKey, groupingValue>>

\* Mutant: an entry is taken as expired from its expiry instant on.
GetParent_ExpiresEarly(st, eventManagerID, groupingKey, groupingValue) ==
    LET key == parentKey(eventManagerID, groupingKey, groupingValue)
    IN  IF key \notin DOMAIN st.parents THEN Nil
        ELSE IF st.now >= st.parents[key].expiresAt THEN Nil
        ELSE st.parents[key].state

\* Mutant: the expiry is not checked.
GetParent_NeverExpires(st, eventManagerID, groupingKey, groupingValue) ==
    LET key == parentKey(eventManagerID, groupingKey, groupingValue)
    IN  IF key \notin DOMAIN st.parents THEN Nil
        ELSE st.parents[key].state

\* Mutant: the lookup ignores the grouping value.
GetParent_AnyGroupingValue(st, eventManagerID, groupingKey, groupingValue) ==
    LET keys == {k \in DOMAIN st.parents :
                    /\ k[1] = eventManagerID
                    /\ k[2] = groupingKey
                    /\ st.now <= st.parents[k].expiresAt}
    IN  IF keys = {} THEN Nil
        ELSE st.parents[CHOOSE k \in keys : TRUE].state

GetParent(st, eventManagerID, groupingKey, groupingValue) ==
    LET key == parentKey(eventManagerID, groupingKey, groupingValue)
    IN  IF key \notin DOMAIN st.parents THEN Nil
        ELSE IF st.now > st.parents[key].expiresAt THEN Nil
        ELSE st.parents[key].state

SetParent(st, eventManagerID, groupingKey, groupingValue, state, ttl) ==
    LET key == parentKey(eventManagerID, groupingKey, groupingValue)
    IN  [st EXCEPT !.parents =
            (key :> [state |-> state, expiresAt |-> st.now + ttl]) @@ @]

GetAlert(st, dedupKey) ==
    IF dedupKey \in DOMAIN st.alerts THEN st.alerts[dedupKey] ELSE Nil

SetAlert(st, state) ==
    [st EXCEPT !.alerts = (state.dedupKey :> state) @@ @]

\* Mutant: adding a child renews the lookup entry of its parent.
AddChild_RefreshesParent(st, parentDedupKey, childDedupKey) ==
    LET old == IF parentDedupKey \in DOMAIN st.children
               THEN st.children[parentDedupKey] ELSE {}
    IN  [st EXCEPT !.children = (parentDedupKey :> (old \cup {childDedupKey})) @@ @,
                   !.parents = [slot \in DOMAIN @ |->
                        IF @[slot].state.dedupKey = parentDedupKey
                        THEN [@[slot] EXCEPT !.expiresAt = st.now + 1]
                        ELSE @[slot]]]

AddChild(st, parentDedupKey, childDedupKey) ==
    LET old == IF parentDedupKey \in DOMAIN st.children
               THEN st.children[parentDedupKey] ELSE {}
    IN  [st EXCEPT !.children = (parentDedupKey :> (old \cup {childDedupKey})) @@ @]

GetChildCount(st, parentDedupKey) ==
    IF parentDedupKey \in DOMAIN st.children
    THEN Cardinality(st.children[parentDedupKey]) ELSE 0

SetPendingResolve(st, parentDedupKey, pending) ==
    [st EXCEPT !.pendingResolves = (parentDedupKey :> pending) @@ @]

\* Mutant: an absent entry reads as an entry with nothing remaining.
GetPendingResolve_ZeroValue(st, parentDedupKey) ==
    IF parentDedupKey \in DOMAIN st.pendingResolves
    THEN st.pendingResolves[parentDedupKey]
    ELSE [requestedAt |-> st.now, remainingChildren |-> 0]

GetPendingResolve(st, parentDedupKey) ==
    IF parentDedupKey \in DOMAIN st.pendingResolves
    THEN st.pendingResolves[parentDedupKey] ELSE Nil

\* Mutant: the entry is not removed.
DeletePendingResolve_Keeps(st, parentDedupKey) == st

DeletePendingResolve(st, parentDedupKey) ==
    [st EXCEPT !.pendingResolves =
        [k \in (DOMAIN @) \ {parentDedupKey} |-> @[k]]]

\* ----------------------------------------- memory.AlertRepository methods
\* Alert.IsChild / IsActive
IsChild(a) == a.type = AlertTypeChild
IsActive(a) == a.status = AlertStatusActive

\* The byParent index after storing a copy of alert (Create and Update share it).
IndexByParent(idx, alert) ==
    IF IsChild(alert) /\ alert.parentDedupKey # ""
    THEN LET old == IF alert.parentDedupKey \in DOMAIN idx
                    THEN idx[alert.parentDedupKey] ELSE EmptyMap
         IN  (alert.parentDedupKey :> ((alert.dedupKey :> alert.id) @@ old)) @@ idx
    ELSE idx

Create(st, alert) ==
    [st EXCEPT !.repoAlerts = (alert.id :> alert) @@ @,
               !.byDedupKey = (alert.dedupKey :> alert.id) @@ @,
               !.byParent = IndexByParent(@, alert)]

\* Update returns the stores and the error ("" for nil).
Update(st, alert) ==
    IF alert.id \notin DOMAIN st.repoAlerts
    THEN [st |-> st, err |-> "ErrAlertNotFound"]
    ELSE LET existing == st.repoAlerts[alert.id]
             indexed == IndexByParent(st.byParent, alert)
             moved == existing.parentDedupKey # ""
                      /\ existing.parentDedupKey # alert.parentDedupKey
                      /\ existing.parentDedupKey \in DOMAIN indexed
         IN  [st |-> [st EXCEPT
                        !.repoAlerts = (alert.id :> alert) @@ @,
                        !.byDedupKey = (alert.dedupKey :> alert.id) @@ @,
                        !.byParent =
                            IF moved
                            THEN [indexed EXCEPT ![existing.parentDedupKey] =
                                    [k \in (DOMAIN @) \ {existing.dedupKey} |-> @[k]]]
                            ELSE indexed],
              err |-> ""]

\* GetByDedupKey: the indexed copy, or Nil with ErrAlertNotFound
GetByDedupKey(st, dedupKey) ==
    IF dedupKey \in DOMAIN st.byDedupKey
    THEN st.repoAlerts[st.byDedupKey[dedupKey]] ELSE Nil

CountActiveChildren(st, parentDedupKey) ==
    IF parentDedupKey \notin DOMAIN st.byParent THEN 0
    ELSE Cardinality({k \in DOMAIN st.byParent[parentDedupKey] :
            IsActive(st.repoAlerts[st.byParent[parentDedupKey][k]])})

\* -------------------------------------------------------- domain.Alert
NewParentAlert(event, t) ==
    [id |-> <<>>, dedupKey |-> event.dedupKey, eventManagerID |-> event.eventManagerID,
     summary |-> event.summary, severity |-> event.severity, class |-> event.class,
     type |-> AlertTypeParent, status |-> AlertStatusActive, parentDedupKey |-> "",
     childCount |-> 0, resolveRequested |-> FALSE, createdAt |-> t, resolvedAt |-> <<>>]

\* Mutant: the child does not name its parent.
NewChildAlert_NoParent(event, parentDedupKey, t) ==
    [id |-> <<>>, dedupKey |-> event.dedupKey, eventManagerID |-> event.eventManagerID,
     summary |-> event.summary, severity |-> event.severity, class |-> event.class,
     type |-> AlertTypeChild, status |-> AlertStatusActive,
     parentDedupKey |-> "",
     childCount |-> 0, resolveRequested |-> FALSE, createdAt |-> t, resolvedAt |-> <<>>]

\* NewChildAlert
NewChildAlert(event, parentDedupKey, t) ==
    [id |-> <<>>, dedupKey |-> event.dedupKey, eventManagerID |-> event.eventManagerID,
     summary |-> event.summary, severity |-> event.severity, class |-> event.class,
     type |-> AlertTypeChild, status |-> AlertStatusActive,
     parentDedupKey |-> parentDedupKey,
     childCount |-> 0, resolveRequested |-> FALSE, createdAt |-> t, resolvedAt |-> <<>>]

\* Mutant: a pending resolve request survives the resolution.
Resolve_KeepsFlag(a, t) ==
    [a EXCEPT !.status = AlertStatusResolved, !.resolvedAt = <<t>>]

\* Mutant: the time of resolution is not recorded.
Resolve_NoResolvedAt(a, t) ==
    [a EXCEPT !.status = AlertStatusResolved, !.resolveRequested = FALSE]

\* Mutant: the record keeps its status.
Resolve_StaysActive(a, t) ==
    [a EXCEPT !.resolvedAt = <<t>>, !.resolveRequested = FALSE]

\* Alert.Resolve
Resolve(a, t) ==
    [a EXCEPT !.status = AlertStatusResolved, !.resolvedAt = <<t>>,
              !.resolveRequested = FALSE]

\* Mutant: the flag is not set.
MarkResolveRequested_NoFlag(a) == a

\* Alert.MarkResolveRequested
MarkResolveRequested(a) == [a EXCEPT !.resolveRequested = TRUE]

\* Mutant: counting a child reopens the parent.
IncrementChildCount_Reactivates(a) ==
    [a EXCEPT !.childCount = @ + 1, !.status = AlertStatusActive]

\* Mutant: the child is not counted.
IncrementChildCount_Keeps(a) == a

\* Alert.IncrementChildCount
IncrementChildCount(a) == [a EXCEPT !.childCount = @ + 1]

\* ------------------------------------------- a handler invocation (frame)
\* fn/pc: the function and the call it is about to make; the other fields are
\* the Go locals; calls is the trace of collaborator calls made so far.
DoneFrame ==
    [fn |-> "done", pc |-> "", event |-> Nil, alertState |-> Nil, em |-> Nil,
     rule |-> Nil, parentState |-> Nil, alert |-> Nil, activeChildren |-> 0,
     pending |-> Nil, dedupKey |-> "", calls |-> <<>>, err |-> ""]

\* The frame of handleMessage(msg), msg carrying the internal event.
NewFrame(event) == [DoneFrame EXCEPT !.fn = "handleMessage", !.event = event]

Out(st, f) == [st |-> st, f |-> f]

\* Record a call to a collaborator in the trace.
Call(f, op, key, val) == [f EXCEPT !.calls = Append(@, <<op, key, val>>)]

Goto(f, fn, pc) == [f EXCEPT !.fn = fn, !.pc = pc]

\* return err from the handler ("" is nil): the locals die with it.
Return(f, err) ==
    [DoneFrame EXCEPT !.event = f.event, !.calls = f.calls, !.err = err]

\* ---------------------------------------------------- processor.Service
\* Mutant: an unknown action is an error.
handleMessage_UnknownActionFails(st, f) ==
    CASE f.event.action = ActionTrigger -> Out(st, Goto(f, "handleTrigger", "GetAlert"))
      [] f.event.action = ActionResolve -> Out(st, Goto(f, "handleResolve", "GetAlert"))
      [] OTHER -> Out(st, Return(f, "unknown action"))

handleMessage(st, f) ==
    CASE f.event.action = ActionTrigger -> Out(st, Goto(f, "handleTrigger", "GetAlert"))
      [] f.event.action = ActionResolve -> Out(st, Goto(f, "handleResolve", "GetAlert"))
      [] OTHER -> Out(st, Return(f, ""))

\* handleTrigger after the deduplication check: the new-alert path.
handleTriggerNewAlert(st, f) ==
    CASE f.pc = "EventManagerGetByID" ->
            LET g == Call(f, "EventManagerGetByID", f.event.eventManagerID, 0)
            IN  IF f.event.eventManagerID \notin DOMAIN EventManagerRepo
                THEN Out(st, Return(g, "ErrEventManagerNotFound"))
                ELSE Out(st, Goto([g EXCEPT !.em = EventManagerRepo[f.event.eventManagerID]],
                                  "handleTrigger", "GroupingRuleGetByID"))
      [] f.pc = "GroupingRuleGetByID" ->
            LET g == Call(f, "GroupingRuleGetByID", f.em.groupingRuleID, 0)
            IN  IF f.em.groupingRuleID \notin DOMAIN GroupingRuleRepo
                THEN Out(st, Return(g, "ErrGroupingRuleNotFound"))
                ELSE Out(st, Goto([g EXCEPT !.rule = GroupingRuleRepo[f.em.groupingRuleID]],
                                  "handleTrigger", "GetParent"))
      [] f.pc = "GetParent" ->
            LET parentState == GetParent(st, f.event.eventManagerID,
                                         f.rule.groupingKey, f.event.groupingValue)
                g == Call(f, "GetParent", f.event.groupingValue, 0)
            IN  IF parentState # Nil
                THEN Out(st, Goto([g EXCEPT !.parentState = parentState],
                                  "createChildAlert", "SetAlert"))
                ELSE Out(st, Goto(g, "createParentAlert", "SetAlert"))

\* Mutant: a trigger for an alert that is already active is not deduplicated.
handleTrigger_NoDedup(st, f) ==
    IF f.pc = "GetAlert"
    THEN LET existingAlert == GetAlert(st, f.event.dedupKey)
             g == Call(f, "GetAlert", f.event.dedupKey, 0)
         IN  IF existingAlert # Nil /\ existingAlert.status = AlertStatusResolved
             THEN Out(st, Goto([g EXCEPT !.alertState = existingAlert],
                               "reactivateAlert", "SetAlert"))
             ELSE Out(st, Goto(g, "handleTrigger", "EventManagerGetByID"))
    ELSE handleTriggerNewAlert(st, f)

handleTrigger(st, f) ==
    IF f.pc = "GetAlert"
    THEN LET existingAlert == GetAlert(st, f.event.dedupKey)
             g == Call(f, "GetAlert", f.event.dedupKey, 0)
         IN  IF existingAlert # Nil
             THEN IF existingAlert.status = AlertStatusResolved
                  THEN Out(st, Goto([g EXCEPT !.alertState = existingAlert],
                                    "reactivateAlert", "SetAlert"))
                  ELSE Out(st, Return(g, ""))
             ELSE Out(st, Goto(g, "handleTrigger", "EventManagerGetByID"))
    ELSE handleTriggerNewAlert(st, f)

\* Mutant: the notification is sent before the durable write.
createParentAlert_NotifiesBeforeCreate(st, f) ==
    CASE f.pc = "SetAlert" ->
            LET alert == [NewParentAlert(f.event, st.now)
                            EXCEPT !.id = uuidNew(st, f.event.dedupKey)]
                alertState == [dedupKey |-> alert.dedupKey,
                               eventManagerID |-> alert.eventManagerID,
                               type |-> alert.type, status |-> alert.status,
                               parentDedupKey |-> "", resolveRequested |-> FALSE]
                g == Call([f EXCEPT !.alert = alert], "SetAlert", alert.dedupKey, 0)
            IN  Out(SetAlert(AfterUuidNew(st, f.event.dedupKey), alertState),
                    Goto(g, "createParentAlert", "SetParent"))
      [] f.pc = "SetParent" ->
            LET parentState == [dedupKey |-> f.alert.dedupKey,
                                createdAt |-> f.alert.createdAt, childCount |-> 0]
            IN  Out(SetParent(st, f.event.eventManagerID, f.rule.groupingKey,
                              f.event.groupingValue, parentState, TimeWindow(f.rule)),
                    Goto(Call(f, "SetParent", f.alert.dedupKey, 0),
                         "createParentAlert", "NotifyNewParent"))
      [] f.pc = "Create" ->
            Out(Create(st, f.alert), Return(Call(f, "Create", f.alert.dedupKey, 0), ""))
      [] f.pc = "NotifyNewParent" ->
            Out(st, Goto(Call(f, "NotifyNewParent", f.alert.dedupKey, 0),
                         "createParentAlert", "Create"))

createParentAlert(st, f) ==
    CASE f.pc = "SetAlert" ->
            LET alert == [NewParentAlert(f.event, st.now)
                            EXCEPT !.id = uuidNew(st, f.event.dedupKey)]
                alertState == [dedupKey |-> alert.dedupKey,
                               eventManagerID |-> alert.eventManagerID,
                               type |-> alert.type, status |-> alert.status,
                               parentDedupKey |-> "", resolveRequested |-> FALSE]
                g == Call([f EXCEPT !.alert = alert], "SetAlert", alert.dedupKey, 0)
            IN  Out(SetAlert(AfterUuidNew(st, f.event.dedupKey), alertState),
                    Goto(g, "createParentAlert", "SetParent"))
      [] f.pc = "SetParent" ->
            LET parentState == [dedupKey |-> f.alert.dedupKey,
                                createdAt |-> f.alert.createdAt, childCount |-> 0]
            IN  Out(SetParent(st, f.event.eventManagerID, f.rule.groupingKey,
                              f.event.groupingValue, parentState, TimeWindow(f.rule)),
                    Goto(Call(f, "SetParent", f.alert.dedupKey, 0),
                         "createParentAlert", "Create"))
      [] f.pc = "Create" ->
            Out(Create(st, f.alert),
                Goto(Call(f, "Create", f.alert.dedupKey, 0),
                     "createParentAlert", "NotifyNewParent"))
      [] f.pc = "NotifyNewParent" ->
            Out(st, Return(Call(f, "NotifyNewParent", f.alert.dedupKey, 0), ""))

createChildAlert(st, f) ==
    CASE f.pc = "SetAlert" ->
            LET alert == [NewChildAlert(f.event, f.parentState.dedupKey, st.now)
                            EXCEPT !.id = uuidNew(st, f.event.dedupKey)]
                alertState == [dedupKey |-> alert.dedupKey,
                               eventManagerID |-> alert.eventManagerID,
                               type |-> alert.type, status |-> alert.status,
                               parentDedupKey |-> alert.parentDedupKey,
                               resolveRequested |-> FALSE]
                g == Call([f EXCEPT !.alert = alert], "SetAlert", alert.dedupKey, 0)
            IN  Out(SetAlert(AfterUuidNew(st, f.event.dedupKey), alertState),
                    Goto(g, "createChildAlert", "AddChild"))
      [] f.pc = "AddChild" ->
            Out(AddChild(st, f.parentState.dedupKey, f.alert.dedupKey),
                Goto(Call(f, "AddChild", f.parentState.dedupKey, 0),
                     "createChildAlert", "Create"))
      [] f.pc = "Create" ->
            Out(Create(st, f.alert),
                Goto(Call(f, "Create", f.alert.dedupKey, 0),
                     "createChildAlert", "GetByDedupKey"))
      [] f.pc = "GetByDedupKey" ->
            LET parentAlert == GetByDedupKey(st, f.parentState.dedupKey)
                g == Call(f, "GetByDedupKey", f.parentState.dedupKey, 0)
            IN  IF parentAlert # Nil
                THEN Out(st, Goto([g EXCEPT !.alert = IncrementChildCount(parentAlert)],
                                  "createChildAlert", "Update"))
                ELSE Out(st, Return(g, ""))
      [] f.pc = "Update" ->
            \* a failed Update is logged only
            Out(Update(st, f.alert).st, Return(Call(f, "Update", f.alert.dedupKey, 0), ""))

\* Mutant: the durable record keeps its resolved_at.
reactivateAlert_KeepsResolvedAt(st, f) ==
    CASE f.pc = "SetAlert" ->
            LET existingState == [f.alertState EXCEPT !.status = AlertStatusActive,
                                                      !.resolveRequested = FALSE]
            IN  Out(SetAlert(st, existingState),
                    Goto(Call([f EXCEPT !.alertState = existingState],
                              "SetAlert", existingState.dedupKey, 0),
                         "reactivateAlert", "GetByDedupKey"))
      [] f.pc = "GetByDedupKey" ->
            LET alert == GetByDedupKey(st, f.event.dedupKey)
                g == Call(f, "GetByDedupKey", f.event.dedupKey, 0)
            IN  IF alert = Nil THEN Out(st, Return(g, "ErrAlertNotFound"))
                ELSE Out(st, Goto([g EXCEPT !.alert =
                                      [alert EXCEPT !.status = AlertStatusActive,
                                                    !.resolveRequested = FALSE]],
                                  "reactivateAlert", "Update"))
      [] f.pc = "Update" ->
            LET r == Update(st, f.alert)
            IN  Out(r.st, Return(Call(f, "Update", f.alert.dedupKey, 0), r.err))

\* Mutant: a reactivation is announced as a new parent.
reactivateAlert_Notifies(st, f) ==
    CASE f.pc = "SetAlert" ->
            LET existingState == [f.alertState EXCEPT !.status = AlertStatusActive,
                                                      !.resolveRequested = FALSE]
            IN  Out(SetAlert(st, existingState),
                    Goto(Call([f EXCEPT !.alertState = existingState],
                              "SetAlert", existingState.dedupKey, 0),
                         "reactivateAlert", "GetByDedupKey"))
      [] f.pc = "GetByDedupKey" ->
            LET alert == GetByDedupKey(st, f.event.dedupKey)
                g == Call(f, "GetByDedupKey", f.event.dedupKey, 0)
            IN  IF alert = Nil THEN Out(st, Return(g, "ErrAlertNotFound"))
                ELSE Out(st, Goto([g EXCEPT !.alert =
                                      [alert EXCEPT !.status = AlertStatusActive,
                                                    !.resolveRequested = FALSE,
                                                    !.resolvedAt = <<>>]],
                                  "reactivateAlert", "Update"))
      [] f.pc = "Update" ->
            LET r == Update(st, f.alert)
            IN  Out(r.st, Return(Call(Call(f, "Update", f.alert.dedupKey, 0),
                                      "NotifyNewParent", f.alert.dedupKey, 0), r.err))

reactivateAlert(st, f) ==
    CASE f.pc = "SetAlert" ->
            LET existingState == [f.alertState EXCEPT !.status = AlertStatusActive,
                                                      !.resolveRequested = FALSE]
            IN  Out(SetAlert(st, existingState),
                    Goto(Call([f EXCEPT !.alertState = existingState],
                              "SetAlert", existingState.dedupKey, 0),
                         "reactivateAlert", "GetByDedupKey"))
      [] f.pc = "GetByDedupKey" ->
            LET alert == GetByDedupKey(st, f.event.dedupKey)
                g == Call(f, "GetByDedupKey", f.event.dedupKey, 0)
            IN  IF alert = Nil THEN Out(st, Return(g, "ErrAlertNotFound"))
                ELSE Out(st, Goto([g EXCEPT !.alert =
                                      [alert EXCEPT !.status = AlertStatusActive,
                                                    !.resolveRequested = FALSE,
                                                    !.resolvedAt = <<>>]],
                                  "reactivateAlert", "Update"))
      [] f.pc = "Update" ->
            LET r == Update(st, f.alert)
            IN  Out(r.st, Return(Call(f, "Update", f.alert.dedupKey, 0), r.err))

\* Mutant: an alert that is already resolved is resolved again.
handleResolve_NoResolvedCheck(st, f) ==
    LET alertState == GetAlert(st, f.event.dedupKey)
        g == Call(f, "GetAlert", f.event.dedupKey, 0)
    IN  IF alertState = Nil THEN Out(st, Return(g, ""))
        ELSE IF alertState.type = AlertTypeChild
        THEN Out(st, Goto([g EXCEPT !.alertState = alertState],
                          "resolveChildAlert", "SetAlert"))
        ELSE Out(st, Goto([g EXCEPT !.alertState = alertState],
                          "resolveParentAlert", "CountActiveChildren"))

handleResolve(st, f) ==
    LET alertState == GetAlert(st, f.event.dedupKey)
        g == Call(f, "GetAlert", f.event.dedupKey, 0)
    IN  IF alertState = Nil THEN Out(st, Return(g, ""))
        ELSE IF alertState.status = AlertStatusResolved THEN Out(st, Return(g, ""))
        ELSE IF alertState.type = AlertTypeChild
        THEN Out(st, Goto([g EXCEPT !.alertState = alertState],
                          "resolveChildAlert", "SetAlert"))
        ELSE Out(st, Goto([g EXCEPT !.alertState = alertState],
                          "resolveParentAlert", "CountActiveChildren"))

resolveChildAlert(st, f) ==
    CASE f.pc = "SetAlert" ->
            LET alertState == [f.alertState EXCEPT !.status = AlertStatusResolved]
            IN  Out(SetAlert(st, alertState),
                    Goto(Call([f EXCEPT !.alertState = alertState],
                              "SetAlert", alertState.dedupKey, 0),
                         "resolveChildAlert", "GetByDedupKey"))
      [] f.pc = "GetByDedupKey" ->
            LET alert == GetByDedupKey(st, f.event.dedupKey)
                g == Call(f, "GetByDedupKey", f.event.dedupKey, 0)
            IN  IF alert = Nil THEN Out(st, Return(g, "ErrAlertNotFound"))
                ELSE Out(st, Goto([g EXCEPT !.alert = Resolve(alert, st.now)],
                                  "resolveChildAlert", "Update"))
      [] f.pc = "Update" ->
            LET r == Update(st, f.alert)
                g == Call(f, "Update", f.alert.dedupKey, 0)
            IN  IF r.err # "" THEN Out(r.st, Return(g, r.err))
                ELSE IF f.alertState.parentDedupKey # ""
                THEN Out(r.st, Goto([g EXCEPT !.dedupKey = f.alertState.parentDedupKey],
                                    "checkParentResolution", "GetPendingResolve"))
                ELSE Out(r.st, Return(g, ""))

resolveParentAlert(st, f) ==
    CASE f.pc = "CountActiveChildren" ->
            LET activeChildren == CountActiveChildren(st, f.event.dedupKey)
                g == Call([f EXCEPT !.activeChildren = activeChildren],
                          "CountActiveChildren", f.event.dedupKey, activeChildren)
            IN  IF activeChildren > 0
                THEN Out(st, Goto(g, "resolveParentAlert", "SetAlert"))
                ELSE Out(st, Goto([g EXCEPT !.dedupKey = f.event.dedupKey],
                                  "completeParentResolution", "SetAlert"))
      [] f.pc = "SetAlert" ->
            LET alertState == [f.alertState EXCEPT !.resolveRequested = TRUE]
            IN  Out(SetAlert(st, alertState),
                    Goto(Call([f EXCEPT !.alertState = alertState],
                              "SetAlert", alertState.dedupKey, 0),
                         "resolveParentAlert", "SetPendingResolve"))
      [] f.pc = "SetPendingResolve" ->
            LET pending == [requestedAt |-> st.now,
                            remainingChildren |-> f.activeChildren]
            IN  Out(SetPendingResolve(st, f.event.dedupKey, pending),
                    Goto(Call(f, "SetPendingResolve", f.event.dedupKey, f.activeChildren),
                         "resolveParentAlert", "GetByDedupKey"))
      [] f.pc = "GetByDedupKey" ->
            LET alert == GetByDedupKey(st, f.event.dedupKey)
                g == Call(f, "GetByDedupKey", f.event.dedupKey, 0)
            IN  IF alert = Nil THEN Out(st, Return(g, "ErrAlertNotFound"))
                ELSE Out(st, Goto([g EXCEPT !.alert = MarkResolveRequested(alert)],
                                  "resolveParentAlert", "Update"))
      [] f.pc = "Update" ->
            LET r == Update(st, f.alert)
            IN  Out(r.st, Return(Call(f, "Update", f.alert.dedupKey, 0), r.err))

\* Mutant: a pending parent is resolved as soon as any child resolves, without
\* the probe of CountActiveChildren.
checkParentResolution_NoProbe(st, f) ==
    CASE f.pc = "GetPendingResolve" ->
            LET pending == GetPendingResolve(st, f.dedupKey)
                g == Call(f, "GetPendingResolve", f.dedupKey, 0)
            IN  IF pending = Nil THEN Out(st, Return(g, ""))
                ELSE Out(st, Goto([g EXCEPT !.pending = pending],
                                  "checkParentResolution", "GetAlert"))
      [] f.pc = "GetAlert" ->
            LET parentState == GetAlert(st, f.dedupKey)
                g == Call(f, "GetAlert", f.dedupKey, 0)
            IN  IF parentState = Nil
                THEN Out(st, Return(g, "parent alert state not found"))
                ELSE Out(st, Goto([g EXCEPT !.alertState = parentState],
                                  "completeParentResolution", "SetAlert"))

checkParentResolution(st, f) ==
    CASE f.pc = "GetPendingResolve" ->
            LET pending == GetPendingResolve(st, f.dedupKey)
                g == Call(f, "GetPendingResolve", f.dedupKey, 0)
            IN  IF pending = Nil THEN Out(st, Return(g, ""))
                ELSE Out(st, Goto([g EXCEPT !.pending = pending],
                                  "checkParentResolution", "CountActiveChildren"))
      [] f.pc = "CountActiveChildren" ->
            LET activeChildren == CountActiveChildren(st, f.dedupKey)
                g == Call([f EXCEPT !.activeChildren = activeChildren],
                          "CountActiveChildren", f.dedupKey, activeChildren)
            IN  IF activeChildren > 0
                THEN Out(st, Goto([g EXCEPT !.pending.remainingChildren = activeChildren],
                                  "checkParentResolution", "SetPendingResolve"))
                ELSE Out(st, Goto(g, "checkParentResolution", "GetAlert"))
      [] f.pc = "SetPendingResolve" ->
            Out(SetPendingResolve(st, f.dedupKey, f.pending),
                Return(Call(f, "SetPendingResolve", f.dedupKey,
                            f.pending.remainingChildren), ""))
      [] f.pc = "GetAlert" ->
            LET parentState == GetAlert(st, f.dedupKey)
                g == Call(f, "GetAlert", f.dedupKey, 0)
            IN  IF parentState = Nil
                THEN Out(st, Return(g, "parent alert state not found"))
                ELSE Out(st, Goto([g EXCEPT !.alertState = parentState],
                                  "completeParentResolution", "SetAlert"))

completeParentResolution(st, f) ==
    CASE f.pc = "SetAlert" ->
            LET alertState == [f.alertState EXCEPT !.status = AlertStatusResolved,
                                                   !.resolveRequested = FALSE]
            IN  Out(SetAlert(st, alertState),
                    Goto(Call([f EXCEPT !.alertState = alertState],
                              "SetAlert", alertState.dedupKey, 0),
                         "completeParentResolution", "DeletePendingResolve"))
      [] f.pc = "DeletePendingResolve" ->
            Out(DeletePendingResolve(st, f.dedupKey),
                Goto(Call(f, "DeletePendingResolve", f.dedupKey, 0),
                     "completeParentResolution", "GetByDedupKey"))
      [] f.pc = "GetByDedupKey" ->
            LET alert == GetByDedupKey(st, f.dedupKey)
                g == Call(f, "GetByDedupKey", f.dedupKey, 0)
            IN  IF alert = Nil THEN Out(st, Return(g, "ErrAlertNotFound"))
                ELSE Out(st, Goto([g EXCEPT !.alert = Resolve(alert, st.now)],
                                  "completeParentResolution", "Update"))
      [] f.pc = "Update" ->
            LET r == Update(st, f.alert)
                g == Call(f, "Update", f.alert.dedupKey, 0)
            IN  IF r.err # "" THEN Out(r.st, Return(g, r.err))
                ELSE Out(r.st, Goto(g, "completeParentResolution", "EventManagerGetByID"))
      [] f.pc = "EventManagerGetByID" ->
            LET g == Call(f, "EventManagerGetByID", f.alertState.eventManagerID, 0)
            IN  IF f.alertState.eventManagerID \notin DOMAIN EventManagerRepo
                THEN Out(st, Return(g, ""))
                ELSE Out(st, Goto(g, "completeParentResolution", "NotifyResolved"))
      [] f.pc = "NotifyResolved" ->
            Out(st, Return(Call(f, "NotifyResolved", f.alert.dedupKey, 0), ""))

\* One step of a handler invocation: up to and including its next call.
Step(st, f) ==
    CASE f.fn = "handleMessage" -> handleMessage(st, f)
      [] f.fn = "handleTrigger" -> handleTrigger(st, f)
      [] f.fn = "createParentAlert" -> createParentAlert(st, f)
      [] f.fn = "createChildAlert" -> createChildAlert(st, f)
      [] f.fn = "reactivateAlert" -> reactivateAlert(st, f)
      [] f.fn = "handleResolve" -> handleResolve(st, f)
      [] f.fn = "resolveChildAlert" -> resolveChildAlert(st, f)
      [] f.fn = "resolveParentAlert" -> resolveParentAlert(st, f)
      [] f.fn = "checkParentResolution" -> checkParentResolution(st, f)
      [] f.fn = "completeParentResolution" -> completeParentResolution(st, f)

\* A handler invocation run until it returns.
RECURSIVE Run(_)
Run(c) == IF c.f.fn = "done" THEN c ELSE Run(Step(c.st, c.f))

\* ------------------------------------------------------- memory.Queue
\* The messages offered to Publish: a serial number and the message key.
QueueMessages ==
    {[id |-> i, key |-> IF i = 3 THEN "k2" ELSE "k1"] : i \in 1..MaxPublished}

Publishers == {1, 2}

\* NewQueue(bufferSize): an open channel with an empty buffer, closed false,
\* mu unlocked, wg zero.
NewQueue ==
    [messages |-> [buf |-> <<>>, closed |-> FALSE],
     closed |-> FALSE, mu |-> "unlocked", wg |-> 0]

\* q.messages <- msg on an open channel with room: msg joins the buffer.
\* Mutant: the message is dropped without a word.
chanSend_Drops(ch, msg) == ch

chanSend(ch, msg) == [ch EXCEPT !.buf = Append(@, msg)]

\* msg, ok := <-q.messages with a buffered message: the oldest one.
\* Mutant: the newest one is taken.
chanRecv_Newest(ch) ==
    [msg |-> ch.buf[Len(ch.buf)],
     ch |-> [ch EXCEPT !.buf = SubSeq(@, 1, Len(@) - 1)]]

chanRecv(ch) == [msg |-> Head(ch.buf), ch |-> [ch EXCEPT !.buf = Tail(@)]]

\* A goroutine that is not inside the call.
NoCall == [pc |-> "idle", msg |-> Nil, ctxDone |-> FALSE]

\* Nothing was published, sent or handled yet.
NoHistory ==
    [called |-> {}, before |-> EmptyMap, afterClose |-> {}, result |-> EmptyMap,
     sent |-> <<>>, handled |-> <<>>, finished |-> {},
     handedAfterDone |-> FALSE, serial |-> 0, ingests |-> <<>>]

\* ------------------------------------------------------------- actions
Init ==
    /\ queue = NewQueue
    /\ publish = [p \in Publishers |-> NoCall]
    /\ start = NoCall
    /\ closeCall = [pc |-> "idle"]
    /\ history = NoHistory
    /\ ingest = [p \in Publishers |-> [pc |-> "idle", event |-> Nil, msg |-> Nil]]
    /\ alerts = EmptyMap
    /\ parents = EmptyMap
    /\ children = EmptyMap
    /\ pendingResolves = EmptyMap
    /\ repoAlerts = EmptyMap
    /\ byDedupKey = EmptyMap
    /\ byParent = EmptyMap
    /\ minted = EmptyMap
    /\ now = 0
    /\ frames = [c \in Consumers |-> DoneFrame]
    /\ received = 0

SetStores(st) ==
    /\ alerts' = st.alerts
    /\ parents' = st.parents
    /\ children' = st.children
    /\ pendingResolves' = st.pendingResolves
    /\ repoAlerts' = st.repoAlerts
    /\ byDedupKey' = st.byDedupKey
    /\ byParent' = st.byParent
    /\ minted' = st.minted

\* Queue.Start with one consumer: the handler is called for the next message
\* and returns before the next one is taken.
HandleMessage(event) ==
    LET r == Run(Out(Stores, NewFrame(InternalEvent(event))))
    IN  /\ SetStores(r.st)
        /\ UNCHANGED <<now, frames, received, queueVars, ingest>>

\* The wall clock advances.
Tick ==
    /\ now < MaxTime
    /\ now' = now + 1
    /\ UNCHANGED <<alerts, parents, children, pendingResolves, repoAlerts,
                   byDedupKey, byParent, minted, frames, received, queueVars, ingest>>

Next ==
    \/ \E event \in Events : HandleMessage(event)
    \/ Tick

Spec == Init /\ [][Next]_vars

\* ------------------------------------------- collaborators that can fail
\* The writes of createParentAlert and createChildAlert.  Each is followed by
\* "if err != nil { return err }"; the Redis state store and the Postgres
\* repository return an error when the call did not go through.
FaultPoints ==
    {<<"createParentAlert", "SetAlert">>, <<"createParentAlert", "SetParent">>,
     <<"createParentAlert", "Create">>,
     <<"createChildAlert", "SetAlert">>, <<"createChildAlert", "AddChild">>,
     <<"createChildAlert", "Create">>}

\* One step of a handler invocation in which the call at fault fails: the
\* store is left as it is and the handler returns the error.
StepFailing(st, f, fault) ==
    IF <<f.fn, f.pc>> = fault
    THEN Out(st, Return(Call(f, f.pc, f.event.dedupKey, 0), "ErrStoreUnavailable"))
    ELSE Step(st, f)

RECURSIVE RunFailing(_, _)
RunFailing(c, fault) ==
    IF c.f.fn = "done" THEN c ELSE RunFailing(StepFailing(c.st, c.f, fault), fault)

\* Consumer.Start / Queue.Start with collaborators that can fail: the handler
\* is called for the next message and returns.  frames[1] keeps the invocation
\* that returned (its event, its calls and its error) for the consumer's
\* "if err := handler(ctx, msg); err != nil".
DeliverMessage(event) ==
    LET r == Run(Out(Stores, NewFrame(InternalEvent(event))))
    IN  /\ SetStores(r.st)
        /\ frames' = [frames EXCEPT ![1] = r.f]
        /\ UNCHANGED <<now, received, queueVars, ingest>>

\* The same, with one of the handler's writes failing: the handler returns the
\* error, and the consumer logs it and goes on with the next message.
HandleMessageFailing(event, fault) ==
    LET r == RunFailing(Out(Stores, NewFrame(InternalEvent(event))), fault)
    IN  /\ r.f.err = "ErrStoreUnavailable"
        /\ SetStores(r.st)
        /\ frames' = [frames EXCEPT ![1] = r.f]
        /\ UNCHANGED <<now, received, queueVars, ingest>>

\* The events of the specification with failures: one tenant, two dedup keys.
FaultEvents == {event \in Events : event.eventManagerID = "em1" /\ event.dedupKey \in {"a", "b"}}

FaultNext ==
    \/ \E event \in FaultEvents : DeliverMessage(event)
    \/ \E event \in FaultEvents : \E fault \in FaultPoints :
            HandleMessageFailing(event, fault)
    \/ Tick

FaultSpec == Init /\ [][FaultNext]_vars

\* ------------------------------------------- several consumers (Kafka)
\* The events of the concurrent specification: one tenant, two dedup keys.
ConcEvents == {event \in Events : event.eventManagerID = "em1" /\ event.dedupKey \in {"a", "b"}}

\* Consumer.Start, fetch: a consumer of the group takes the next message of a
\* partition it owns and calls the handler.  The producer hashes the partition
\* key to the partition, so no two handlers run at once for one partition key.
Receive(c, event) ==
    LET e == InternalEvent(event)
    IN  /\ received < MaxMessages
        /\ frames[c].fn = "done"
        /\ \A d \in Consumers \ {c} :
                frames[d].fn # "done" => frames[d].event.partitionKey # e.partitionKey
        /\ frames' = [frames EXCEPT ![c] = NewFrame(e)]
        /\ received' = received + 1
        /\ UNCHANGED <<alerts, parents, children, pendingResolves, repoAlerts,
                       byDedupKey, byParent, minted, now, queueVars, ingest>>

\* The handler of consumer c runs up to and including its next call to the
\* state store, a repository or the notifier; when it returns, the consumer
\* is free for its next message.
StepConsumer(c) ==
    LET r == Step(Stores, frames[c])
    IN  /\ frames[c].fn # "done"
        /\ SetStores(r.st)
        /\ frames' = [frames EXCEPT ![c] = IF r.f.fn = "done" THEN DoneFrame ELSE r.f]
        /\ UNCHANGED <<now, received, queueVars, ingest>>

ConcNext ==
    \/ \E c \in Consumers : \E event \in ConcEvents : Receive(c, event)
    \/ \E c \in Consumers : StepConsumer(c)
    \/ Tick

ConcSpec == Init /\ [][ConcNext]_vars

\* ------------------------------------------- memory.Queue: the calls
storeVars == <<alerts, parents, children, pendingResolves, repoAlerts,
               byDedupKey, byParent, minted, now, frames, received>>

\* A send on the closed channel has panicked: the process is gone.
Crashed == \E p \in Publishers : publish[p].pc = "panicked"

\* Publish(ctx, msg) is called by publisher p, for a message not offered
\* before.  The history notes which Publish calls had returned nil by then.
PublishCall(p, m) ==
    /\ ~Crashed
    /\ publish[p].pc = "idle"
    /\ m \notin history.called
    /\ publish' = [publish EXCEPT ![p] = [pc |-> "RLock", msg |-> m, ctxDone |-> FALSE]]
    /\ history' = [history EXCEPT
            !.called = @ \cup {m},
            !.afterClose = IF queue.closed THEN @ \cup {m} ELSE @,
            !.before = (m :> {x \in DOMAIN history.result : history.result[x] = "nil"}) @@ @]
    /\ UNCHANGED <<queue, start, closeCall, storeVars>>

\* Publish: q.mu.RLock(); if q.closed { RUnlock; return ErrQueueClosed };
\* q.mu.RUnlock().  RLock waits while Close holds the lock.
PublishCheckClosed(p) ==
    /\ ~Crashed
    /\ publish[p].pc = "RLock"
    /\ queue.mu = "unlocked"
    /\ IF queue.closed
       THEN /\ publish' = [publish EXCEPT ![p] = NoCall]
            /\ history' = [history EXCEPT
                    !.result = (publish[p].msg :> "ErrQueueClosed") @@ @]
       ELSE /\ publish' = [publish EXCEPT ![p].pc = "select"]
            /\ UNCHANGED history
    /\ UNCHANGED <<queue, start, closeCall, storeVars, ingest>>

\* Publish, select case q.messages <- msg: the channel is open and its buffer
\* has room; return nil.
PublishSend(p) ==
    /\ ~Crashed
    /\ publish[p].pc = "select"
    /\ ~queue.messages.closed
    /\ Len(queue.messages.buf) < BufferSize
    /\ queue' = [queue EXCEPT !.messages = chanSend(@, publish[p].msg)]
    /\ publish' = [publish EXCEPT ![p] = NoCall]
    /\ history' = [history EXCEPT
            !.sent = Append(@, publish[p].msg),
            !.result = (publish[p].msg :> "nil") @@ @]
    /\ UNCHANGED <<start, closeCall, storeVars, ingest>>

\* Publish, select case q.messages <- msg on a channel that Close has closed:
\* the send panics.
PublishSendOnClosed(p) ==
    /\ ~Crashed
    /\ publish[p].pc = "select"
    /\ queue.messages.closed
    /\ publish' = [publish EXCEPT ![p].pc = "panicked"]
    /\ history' = [history EXCEPT !.result = (publish[p].msg :> "panic") @@ @]
    /\ UNCHANGED <<queue, start, closeCall, storeVars, ingest>>

\* Publish, select case <-ctx.Done(): return ctx.Err(); nothing is enqueued.
PublishCtxDone(p) ==
    /\ ~Crashed
    /\ publish[p].pc = "select"
    /\ publish[p].ctxDone
    /\ publish' = [publish EXCEPT ![p] = NoCall]
    /\ history' = [history EXCEPT !.result = (publish[p].msg :> "ctx.Err") @@ @]
    /\ UNCHANGED <<queue, start, closeCall, storeVars, ingest>>

\* The caller cancels the context of a running Publish.
CancelPublish(p) ==
    /\ ~Crashed
    /\ publish[p].pc \in {"RLock", "select"}
    /\ ~publish[p].ctxDone
    /\ publish' = [publish EXCEPT ![p].ctxDone = TRUE]
    /\ UNCHANGED <<queue, start, closeCall, history, storeVars, ingest>>

\* Start(ctx, handler) is called: q.wg.Add(1), then the loop.
StartCall ==
    /\ ~Crashed
    /\ start.pc = "idle"
    /\ queue' = [queue EXCEPT !.wg = @ + 1]
    /\ start' = [start EXCEPT !.pc = "select"]
    /\ UNCHANGED <<publish, closeCall, history, storeVars, ingest>>

\* Start, select case <-ctx.Done(): return ctx.Err(), with the deferred wg.Done().
StartCtxDone ==
    /\ ~Crashed
    /\ start.pc = "select"
    /\ start.ctxDone
    /\ queue' = [queue EXCEPT !.wg = @ - 1]
    /\ start' = [start EXCEPT !.pc = "returned"]
    /\ UNCHANGED <<publish, closeCall, history, storeVars, ingest>>

\* Start, select case msg, ok := <-q.messages with a buffered message: ok is
\* true (also on a closed channel, until the buffer is drained) and the
\* handler is called with msg.
StartReceive ==
    /\ ~Crashed
    /\ start.pc = "select"
    /\ queue.messages.buf # <<>>
    /\ queue' = [queue EXCEPT !.messages = chanRecv(@).ch]
    /\ start' = [start EXCEPT !.pc = "handler", !.msg = chanRecv(queue.messages).msg]
    /\ history' = [history EXCEPT
            !.handled = Append(@, chanRecv(queue.messages).msg),
            !.handedAfterDone = @ \/ start.ctxDone]
    /\ UNCHANGED <<publish, closeCall, storeVars, ingest>>

\* Start, select case msg, ok := <-q.messages on a closed and drained
\* channel: !ok, return nil, with the deferred wg.Done().
StartChannelClosed ==
    /\ ~Crashed
    /\ start.pc = "select"
    /\ queue.messages.buf = <<>>
    /\ queue.messages.closed
    /\ queue' = [queue EXCEPT !.wg = @ - 1]
    /\ start' = [start EXCEPT !.pc = "returned"]
    /\ UNCHANGED <<publish, closeCall, history, storeVars, ingest>>

\* The handler returns (nil or an error: the loop continues either way).
HandlerReturn ==
    /\ ~Crashed
    /\ start.pc = "handler"
    /\ start' = [start EXCEPT !.pc = "select", !.msg = Nil]
    /\ history' = [history EXCEPT !.finished = @ \cup {start.msg}]
    /\ UNCHANGED <<queue, publish, closeCall, storeVars, ingest>>

\* The context passed to Start is cancelled.
CancelStart ==
    /\ ~Crashed
    /\ ~start.ctxDone
    /\ start' = [start EXCEPT !.ctxDone = TRUE]
    /\ UNCHANGED <<queue, publish, closeCall, history, storeVars, ingest>>

\* Close: q.mu.Lock(); if q.closed return nil; q.closed = true;
\* close(q.messages).  The lock is held on.
CloseCall ==
    /\ ~Crashed
    /\ closeCall.pc \in {"idle", "returned"}
    /\ queue.mu = "unlocked"
    /\ IF queue.closed
       THEN UNCHANGED <<queue, closeCall>>
       ELSE /\ queue' = [queue EXCEPT !.mu = "locked", !.closed = TRUE,
                                      !.messages.closed = TRUE]
            /\ closeCall' = [closeCall EXCEPT !.pc = "wg.Wait"]
    /\ UNCHANGED <<publish, start, history, storeVars, ingest>>

\* Mutant: Close returns without waiting for the Start calls.
CloseWgWait_NoWait ==
    /\ ~Crashed
    /\ closeCall.pc = "wg.Wait"
    /\ queue' = [queue EXCEPT !.mu = "unlocked"]
    /\ closeCall' = [closeCall EXCEPT !.pc = "returned"]
    /\ UNCHANGED <<publish, start, history, storeVars, ingest>>

\* Close: q.wg.Wait() returns when no Start call is running; return nil with
\* the deferred q.mu.Unlock().
CloseWgWait ==
    /\ ~Crashed
    /\ closeCall.pc = "wg.Wait"
    /\ queue.wg = 0
    /\ queue' = [queue EXCEPT !.mu = "unlocked"]
    /\ closeCall' = [closeCall EXCEPT !.pc = "returned"]
    /\ UNCHANGED <<publish, start, history, storeVars, ingest>>

QueueNext ==
    \/ \E p \in Publishers : \E m \in QueueMessages :
            PublishCall(p, m) /\ UNCHANGED ingest
    \/ \E p \in Publishers : PublishCheckClosed(p)
    \/ \E p \in Publishers : PublishSend(p)
    \/ \E p \in Publishers : PublishSendOnClosed(p)
    \/ \E p \in Publishers : PublishCtxDone(p)
    \/ \E p \in Publishers : CancelPublish(p)
    \/ StartCall
    \/ StartCtxDone
    \/ StartReceive
    \/ StartChannelClosed
    \/ HandlerReturn
    \/ CancelStart
    \/ CloseCall
    \/ CloseWgWait

QueueSpec == Init /\ [][QueueNext]_vars

\* The consumer goroutine is scheduled: Start is called, a select with a
\* ready case is executed, and the handler returns.
QueueFairSpec ==
    /\ QueueSpec
    /\ WF_vars(StartCall)
    /\ WF_vars(StartReceive)
    /\ WF_vars(HandlerReturn)

\* The goroutines of Start and Close are scheduled until they return: a select
\* with a ready case is executed and wg.Wait returns once the counter is zero.
QueueCloseFairSpec ==
    /\ QueueFairSpec
    /\ WF_vars(StartChannelClosed)
    /\ WF_vars(CloseWgWait)

\* ------------------------------------------------------ ingest.Service
\* The queue.Message IngestEvent builds: Key is the partition key, Value the
\* serialized InternalEvent.  id numbers the calls.
\* Mutant: the key is derived from the tenant alone.
NewMessage_KeyOfTenant(id, internalEvent) ==
    [id |-> id, key |-> partitionKeys[internalEvent.eventManagerID, ""],
     value |-> internalEvent,
     headers |-> [event_manager_id |-> internalEvent.eventManagerID,
                  action |-> internalEvent.action,
                  dedup_key |-> internalEvent.dedupKey]]

NewMessage(id, internalEvent) ==
    [id |-> id, key |-> internalEvent.partitionKey, value |-> internalEvent,
     headers |-> [event_manager_id |-> internalEvent.eventManagerID,
                  action |-> internalEvent.action,
                  dedup_key |-> internalEvent.dedupKey]]

\* IngestEvent's mapping of the result of producer.Publish.
\* Mutant: the producer's error is passed on.
publishError_PassedOn(result) == IF result = "nil" THEN "" ELSE result

publishError(result) == IF result = "nil" THEN "" ELSE "ErrPublishFailed"

\* IngestEvent(ctx, event) is called by caller p: the two lookups, then the
\* message is built and Publish is called with it.
IngestEvent(p, event) ==
    LET id == history.serial + 1
        failed(err) ==
            /\ history' = [history EXCEPT
                    !.serial = id,
                    !.ingests = Append(@, [id |-> id, event |-> event, msg |-> Nil,
                                           err |-> err])]
            /\ UNCHANGED <<queue, publish, start, closeCall, ingest, storeVars>>
    IN  /\ ~Crashed
        /\ history.serial < MaxIngested
        /\ ingest[p].pc = "idle"
        /\ publish[p].pc = "idle"
        /\ IF event.eventManagerID \notin DOMAIN EventManagerRepo
           THEN failed("ErrEventManagerNotFound")
           ELSE IF EventManagerRepo[event.eventManagerID].groupingRuleID
                        \notin DOMAIN GroupingRuleRepo
           THEN failed("ErrGroupingRuleNotFound")
           ELSE LET internalEvent == InternalEvent(event) @@ [receivedAt |-> now]
                    msg == NewMessage(id, internalEvent)
                IN  /\ publish' = [publish EXCEPT
                            ![p] = [pc |-> "RLock", msg |-> msg, ctxDone |-> FALSE]]
                    /\ ingest' = [ingest EXCEPT
                            ![p] = [pc |-> "Publish", event |-> event, msg |-> msg]]
                    /\ history' = [history EXCEPT
                            !.serial = id,
                            !.called = @ \cup {msg},
                            !.afterClose = IF queue.closed THEN @ \cup {msg} ELSE @,
                            !.before = (msg :> {x \in DOMAIN history.result :
                                                    history.result[x] = "nil"}) @@ @]
                    /\ UNCHANGED <<queue, start, closeCall, storeVars>>

\* producer.Publish has returned: IngestEvent returns nil, or ErrPublishFailed.
IngestReturn(p) ==
    /\ ~Crashed
    /\ ingest[p].pc = "Publish"
    /\ publish[p].pc = "idle"
    /\ ingest' = [ingest EXCEPT ![p] = [pc |-> "idle", event |-> Nil, msg |-> Nil]]
    /\ history' = [history EXCEPT
            !.ingests = Append(@,
                [id |-> ingest[p].msg.id, event |-> ingest[p].event,
                 msg |-> ingest[p].msg,
                 err |-> publishError(history.result[ingest[p].msg])])]
    /\ UNCHANGED <<queue, publish, start, closeCall, storeVars>>

\* POST /v1/events, handled for caller p: the parsed event is validated, and
\* only a valid one is passed to the service's IngestEvent; an invalid one is
\* answered with a validation error (400).
IngestHandlerIngestEvent(p, event) ==
    IF Validate(event) # ""
    THEN /\ ~Crashed
         /\ history.serial < MaxIngested
         /\ ingest[p].pc = "idle"
         /\ publish[p].pc = "idle"
         /\ history' = [history EXCEPT
                !.serial = @ + 1,
                !.ingests = Append(@, [id |-> history.serial + 1, event |-> event,
                                       msg |-> Nil, err |-> "ValidationError"])]
         /\ UNCHANGED <<queue, publish, start, closeCall, ingest, storeVars>>
    ELSE IngestEvent(p, event)

IngestNext ==
    \/ \E p \in 1..MaxCallers : \E event \in IngestEvents :
            IngestHandlerIngestEvent(p, event)
    \/ \E p \in Publishers : IngestReturn(p)
    \/ \E p \in Publishers : PublishCheckClosed(p)
    \/ \E p \in Publishers : PublishSend(p)
    \/ \E p \in Publishers : PublishSendOnClosed(p)
    \/ \E p \in Publishers : PublishCtxDone(p)
    \/ \E p \in Publishers : CancelPublish(p)
    \/ StartCall
    \/ StartReceive
    \/ StartChannelClosed
    \/ HandlerReturn
    \/ CloseCall
    \/ CloseWgWait
    \/ Tick

IngestSpec == Init /\ [][IngestNext]_vars

\* ------------------------------------------------- vocabulary of the claims
\* Every step of Spec other than Tick is one handler call, and a handler call
\* is a function of the stores and the event.  RunOf(event) is that call made
\* in the current state: its .st are the stores it leaves and its .f.calls the
\* calls it made.  A claim "handling E in a state with P yields Q" is checked
\* as: in every reachable state and for every event, P => Q of RunOf.
RunOf(event) == Run(Out(Stores, NewFrame(InternalEvent(event))))

\* How often a call was made in a trace, and whether an operation was called.
Count(calls, call) == Cardinality({i \in 1..Len(calls) : calls[i] = call})
Made(calls, op) == \E i \in 1..Len(calls) : calls[i][1] = op

\* The durable records of a dedup key and the active child records of a
\* parent, read off the records (not off the repository's indexes).
RecordsOf(st, k) == {id \in DOMAIN st.repoAlerts : st.repoAlerts[id].dedupKey = k}
ActiveChildren(st, p) ==
    {id \in DOMAIN st.repoAlerts :
        /\ st.repoAlerts[id].type = AlertTypeChild
        /\ st.repoAlerts[id].parentDedupKey = p
        /\ st.repoAlerts[id].status = AlertStatusActive}

HasState(st, k, type, status) ==
    /\ k \in DOMAIN st.alerts
    /\ st.alerts[k].type = type
    /\ st.alerts[k].status = status

\* The one durable record of k has this type and status.
HasRecord(st, k, type, status) ==
    /\ k \in DOMAIN st.byDedupKey
    /\ RecordsOf(st, k) = {st.byDedupKey[k]}
    /\ st.repoAlerts[st.byDedupKey[k]].type = type
    /\ st.repoAlerts[st.byDedupKey[k]].status = status

RecordOf(st, k) == st.repoAlerts[st.byDedupKey[k]]

\* The parent lookup entry an event falls under, and whether it is live.
RuleOf(event) == GroupingRuleRepo[EventManagerRepo[event.eventManagerID].groupingRuleID]
SlotOf(event) ==
    <<event.eventManagerID, RuleOf(event).groupingKey,
      ExtractGroupingValue(RuleOf(event), event)>>
Live(slot) == slot \in DOMAIN parents /\ now <= parents[slot].expiresAt

\* ---------------------------------------------------------------- C1
\* C1: a parent goes from active to resolved (alert-state or durable record)
\* only in a handler call that read CountActiveChildren(parent) = 0 and made
\* no write between that read and the SetAlert that resolves the parent; the
\* parent then has no active child record.  The call is a resolve of the
\* parent (resolveParentAlert) or of one of its children
\* (checkParentResolution).
ProbedZero(calls, p) ==
    \E i \in 1..Len(calls) : \E j \in (i + 1)..Len(calls) :
        /\ calls[i] = <<"CountActiveChildren", p, 0>>
        /\ calls[j] = <<"SetAlert", p, 0>>
        /\ \A m \in (i + 1)..(j - 1) : calls[m][1] = "GetAlert"

ParentResolves(st, p) ==
    \/ /\ HasState(Stores, p, AlertTypeParent, AlertStatusActive)
       /\ st.alerts[p].status = AlertStatusResolved
    \/ \E id \in RecordsOf(Stores, p) :
        /\ repoAlerts[id].type = AlertTypeParent
        /\ repoAlerts[id].status = AlertStatusActive
        /\ st.repoAlerts[id].status = AlertStatusResolved

C1_ParentResolvesOnlyAfterZeroProbe ==
    \A event \in Events :
        LET r == RunOf(event)
        IN  \A p \in DedupKeys :
            ParentResolves(r.st, p) =>
                /\ event.action = ActionResolve
                /\ \/ event.dedupKey = p
                   \/ HasState(Stores, event.dedupKey, AlertTypeChild, AlertStatusActive)
                      /\ alerts[event.dedupKey].parentDedupKey = p
                /\ ProbedZero(r.f.calls, p)
                /\ ActiveChildren(r.st, p) = {}
                /\ HasState(r.st, p, AlertTypeParent, AlertStatusResolved)
                /\ HasRecord(r.st, p, AlertTypeParent, AlertStatusResolved)

\* A parent that was resolved through the deferred path: it has a child.
C1_Witness ==
    \E p \in DedupKeys :
        /\ HasState(Stores, p, AlertTypeParent, AlertStatusResolved)
        /\ HasRecord(Stores, p, AlertTypeParent, AlertStatusResolved)
        /\ p \in DOMAIN children
        /\ children[p] # {}
        /\ ActiveChildren(Stores, p) = {}

\* ---------------------------------------------------------------- C2
\* C2: a resolve handled for an active parent with n >= 1 active children
\* leaves the parent active, sets resolve_requested in the alert-state and in
\* the durable record, stores a pending-resolve entry with
\* remaining_children = n, and does not call NotifyResolved.
C2_DeferredParentResolve ==
    \A event \in Events :
        LET p == event.dedupKey
            n == Cardinality(ActiveChildren(Stores, p))
            r == RunOf(event)
        IN  (/\ event.action = ActionResolve
             /\ HasState(Stores, p, AlertTypeParent, AlertStatusActive)
             /\ HasRecord(Stores, p, AlertTypeParent, AlertStatusActive)
             /\ n >= 1)
            =>
            /\ HasState(r.st, p, AlertTypeParent, AlertStatusActive)
            /\ r.st.alerts[p].resolveRequested
            /\ HasRecord(r.st, p, AlertTypeParent, AlertStatusActive)
            /\ RecordOf(r.st, p).resolveRequested
            /\ p \in DOMAIN r.st.pendingResolves
            /\ r.st.pendingResolves[p].remainingChildren = n
            /\ ~Made(r.f.calls, "NotifyResolved")
            /\ r.f.err = ""

C2_Witness ==
    \E p \in DedupKeys :
        /\ HasState(Stores, p, AlertTypeParent, AlertStatusActive)
        /\ alerts[p].resolveRequested
        /\ HasRecord(Stores, p, AlertTypeParent, AlertStatusActive)
        /\ RecordOf(Stores, p).resolveRequested
        /\ p \in DOMAIN pendingResolves
        /\ pendingResolves[p].remainingChildren = 2
        /\ Cardinality(ActiveChildren(Stores, p)) = 2

\* ---------------------------------------------------------------- C3
\* C3: when a parent has a pending-resolve entry and a resolve is handled for
\* its last active child, then at the end of that handler call the child is
\* resolved, the parent is resolved in the state store and in the repository,
\* the pending-resolve entry is gone and NotifyResolved was called exactly once
\* for the parent.
C3_LastChildCompletesParent ==
    \A event \in Events :
        LET c == event.dedupKey
            p == alerts[c].parentDedupKey
            r == RunOf(event)
        IN  (/\ event.action = ActionResolve
             /\ HasState(Stores, c, AlertTypeChild, AlertStatusActive)
             /\ HasRecord(Stores, c, AlertTypeChild, AlertStatusActive)
             /\ p \in DOMAIN pendingResolves
             /\ ActiveChildren(Stores, p) = {byDedupKey[c]})
            =>
            /\ HasState(r.st, c, AlertTypeChild, AlertStatusResolved)
            /\ HasRecord(r.st, c, AlertTypeChild, AlertStatusResolved)
            /\ HasState(r.st, p, AlertTypeParent, AlertStatusResolved)
            /\ HasRecord(r.st, p, AlertTypeParent, AlertStatusResolved)
            /\ p \notin DOMAIN r.st.pendingResolves
            /\ Count(r.f.calls, <<"NotifyResolved", p, 0>>) = 1
            /\ r.f.err = ""

\* A parent resolved after its resolve was deferred behind two children.
C3_Witness ==
    \E p \in DedupKeys :
        /\ HasState(Stores, p, AlertTypeParent, AlertStatusResolved)
        /\ HasRecord(Stores, p, AlertTypeParent, AlertStatusResolved)
        /\ p \notin DOMAIN pendingResolves
        /\ p \in DOMAIN children
        /\ Cardinality(children[p]) = 2
        /\ \A c \in children[p] : HasRecord(Stores, c, AlertTypeChild, AlertStatusResolved)

\* ---------------------------------------------------------------- C4
\* C4: a trigger handled for a dedup key without alert-state, while the parent
\* lookup entry of its (tenant, grouping key, grouping value) is live and names
\* P, creates an alert of type child, status active, parent_dedup_key = P, and
\* adds the dedup key to children(P); no parent is created: the lookup entries
\* and the set of parent records stay as they are and NotifyNewParent is not
\* called.
ParentRecords(st) ==
    {id \in DOMAIN st.repoAlerts : st.repoAlerts[id].type = AlertTypeParent}

C4_TriggerUnderLiveParentIsChild ==
    \A event \in Events :
        LET k == event.dedupKey
            P == parents[SlotOf(event)].state.dedupKey
            r == RunOf(event)
        IN  (/\ event.action = ActionTrigger
             /\ k \notin DOMAIN alerts
             /\ Live(SlotOf(event)))
            =>
            /\ HasState(r.st, k, AlertTypeChild, AlertStatusActive)
            /\ r.st.alerts[k].parentDedupKey = P
            /\ HasRecord(r.st, k, AlertTypeChild, AlertStatusActive)
            /\ RecordOf(r.st, k).parentDedupKey = P
            /\ P \in DOMAIN r.st.children
            /\ k \in r.st.children[P]
            /\ r.st.parents = parents
            /\ ParentRecords(r.st) = ParentRecords(Stores)
            /\ ~Made(r.f.calls, "NotifyNewParent")
            /\ r.f.err = ""

\* A child created at the last instant of its parent's window.
C4_Witness ==
    \E c \in DedupKeys : \E slot \in DOMAIN parents :
        /\ HasRecord(Stores, c, AlertTypeChild, AlertStatusActive)
        /\ RecordOf(Stores, c).parentDedupKey = parents[slot].state.dedupKey
        /\ RecordOf(Stores, c).createdAt = parents[slot].expiresAt
        /\ c \in children[parents[slot].state.dedupKey]

\* ---------------------------------------------------------------- C5
\* C5: a trigger handled for a dedup key without alert-state, when the lookup
\* entry of its own (tenant, grouping key, grouping value) is absent or
\* expired, creates exactly one durable record, of type parent, status active,
\* child_count 0, with an alert-state entry, and sets that lookup entry to
\* point at it with expiry now + the rule's window; live entries of other
\* grouping values or tenants change nothing of this, and stay as they are.
C5_TriggerWithoutLiveParentIsParent ==
    \A event \in Events :
        LET k == event.dedupKey
            slot == SlotOf(event)
            r == RunOf(event)
        IN  (/\ event.action = ActionTrigger
             /\ k \notin DOMAIN alerts
             /\ ~Live(slot))
            =>
            /\ Cardinality(DOMAIN r.st.repoAlerts) = Cardinality(DOMAIN repoAlerts) + 1
            /\ \A id \in DOMAIN repoAlerts :
                    id \in DOMAIN r.st.repoAlerts /\ r.st.repoAlerts[id] = repoAlerts[id]
            /\ HasRecord(r.st, k, AlertTypeParent, AlertStatusActive)
            /\ RecordOf(r.st, k).childCount = 0
            /\ RecordOf(r.st, k).parentDedupKey = ""
            /\ HasState(r.st, k, AlertTypeParent, AlertStatusActive)
            /\ slot \in DOMAIN r.st.parents
            /\ r.st.parents[slot].state.dedupKey = k
            /\ r.st.parents[slot].expiresAt = now + RuleOf(event).timeWindowMinutes
            /\ \A other \in DOMAIN parents \ {slot} :
                    other \in DOMAIN r.st.parents /\ r.st.parents[other] = parents[other]
            /\ Count(r.f.calls, <<"NotifyNewParent", k, 0>>) = 1
            /\ r.f.err = ""

\* Two parents of one tenant with different grouping values, both entries
\* live, and a live parent of the other tenant.
C5_Witness ==
    \E s1 \in DOMAIN parents : \E s2 \in DOMAIN parents : \E s3 \in DOMAIN parents :
        /\ s1[1] = s2[1] /\ s1[3] # s2[3] /\ s3[1] # s1[1]
        /\ Live(s1) /\ Live(s2) /\ Live(s3)
        /\ \A s \in {s1, s2, s3} :
                HasRecord(Stores, parents[s].state.dedupKey, AlertTypeParent, AlertStatusActive)

\* ---------------------------------------------------------------- C6
\* C6: while the alert-state of a dedup key is active, handling a further
\* trigger for it changes nothing: no record is created, no record and no
\* entry of the state store changes, and no notification is sent.
C6_DuplicateTriggerIsNoOp ==
    \A event \in Events :
        LET k == event.dedupKey
            r == RunOf(event)
        IN  (/\ event.action = ActionTrigger
             /\ k \in DOMAIN alerts
             /\ alerts[k].status = AlertStatusActive)
            =>
            /\ r.st = Stores
            /\ ~Made(r.f.calls, "NotifyNewParent")
            /\ ~Made(r.f.calls, "NotifyResolved")
            /\ ~Made(r.f.calls, "Create")
            /\ ~Made(r.f.calls, "Update")
            /\ r.f.err = ""

\* An active parent with a child, whose duplicate trigger carries another class
\* (hence another grouping value) than the record.
C6_Witness ==
    \E event \in Events :
        LET k == event.dedupKey
        IN  /\ event.action = ActionTrigger
            /\ HasState(Stores, k, AlertTypeParent, AlertStatusActive)
            /\ HasRecord(Stores, k, AlertTypeParent, AlertStatusActive)
            /\ RecordOf(Stores, k).childCount = 1
            /\ RecordOf(Stores, k).class # event.class
            /\ RecordOf(Stores, k).eventManagerID = event.eventManagerID
            /\ RunOf(event).st = Stores

\* ---------------------------------------------------------------- C8
\* C8: a trigger handled for a dedup key without alert-state, whose grouping
\* slot holds a lookup entry of a parent created more than the rule's window
\* ago, creates a new parent (not a child) and makes the lookup entry point at
\* it, with a fresh expiry; the earlier parent keeps its alert-state and its
\* durable record, found by its dedup key.
C8_TriggerAfterWindowIsNewParent ==
    \A event \in Events :
        LET k == event.dedupKey
            slot == SlotOf(event)
            old == parents[slot].state.dedupKey
            r == RunOf(event)
        IN  (/\ event.action = ActionTrigger
             /\ k \notin DOMAIN alerts
             /\ slot \in DOMAIN parents
             /\ now > parents[slot].state.createdAt + RuleOf(event).timeWindowMinutes)
            =>
            /\ HasState(r.st, k, AlertTypeParent, AlertStatusActive)
            /\ HasRecord(r.st, k, AlertTypeParent, AlertStatusActive)
            /\ RecordOf(r.st, k).parentDedupKey = ""
            /\ r.st.parents[slot].state.dedupKey = k
            /\ r.st.parents[slot].expiresAt = now + RuleOf(event).timeWindowMinutes
            /\ old # k
            /\ r.st.alerts[old] = alerts[old]
            /\ GetByDedupKey(r.st, old) # Nil
            /\ GetByDedupKey(r.st, old) = GetByDedupKey(Stores, old)
            /\ GetByDedupKey(r.st, old).type = AlertTypeParent
            /\ r.f.err = ""

\* Two parent records of one grouping slot: the earlier one with a child, the
\* later one created after the earlier one's window and named by the entry.
C8_Witness ==
    \E slot \in DOMAIN parents : \E old \in DedupKeys :
        LET k == parents[slot].state.dedupKey
        IN  /\ old # k
            /\ HasRecord(Stores, old, AlertTypeParent, AlertStatusActive)
            /\ HasRecord(Stores, k, AlertTypeParent, AlertStatusActive)
            /\ RecordOf(Stores, old).eventManagerID = slot[1]
            /\ RecordOf(Stores, old).class = slot[3]
            /\ RecordOf(Stores, k).class = slot[3]
            /\ RecordOf(Stores, old).childCount = 1
            /\ RecordOf(Stores, k).createdAt > RecordOf(Stores, old).createdAt + 1

\* ---------------------------------------------------------------- C9
\* C9: handling an event turns a resolved alert (alert-state or durable
\* record) active only if the event is a trigger for that alert's own dedup
\* key; resolves, and triggers for other dedup keys (children created under
\* the alert included), leave a resolved alert resolved.
Reactivated(st, k) ==
    \/ /\ k \in DOMAIN alerts
       /\ alerts[k].status = AlertStatusResolved
       /\ st.alerts[k].status = AlertStatusActive
    \/ \E id \in DOMAIN repoAlerts :
            /\ repoAlerts[id].dedupKey = k
            /\ repoAlerts[id].status = AlertStatusResolved
            /\ st.repoAlerts[id].status = AlertStatusActive

C9_ReactivationOnlyByOwnTrigger ==
    \A event \in Events :
        LET r == RunOf(event)
        IN  \A k \in DedupKeys :
                Reactivated(r.st, k)
                    => (event.action = ActionTrigger /\ event.dedupKey = k)

\* A resolved parent whose lookup entry is still live: its own trigger
\* reactivates it, and a trigger for a new dedup key of the same group adds a
\* child to it.
C9_Witness ==
    \E event \in Events : \E other \in Events :
        LET k == event.dedupKey
        IN  /\ HasState(Stores, k, AlertTypeParent, AlertStatusResolved)
            /\ Live(SlotOf(other))
            /\ parents[SlotOf(other)].state.dedupKey = k
            /\ other.action = ActionTrigger
            /\ other.dedupKey \notin DOMAIN alerts
            /\ RecordOf(RunOf(other).st, k).childCount = RecordOf(Stores, k).childCount + 1
            /\ Reactivated(RunOf(event).st, k)

\* ---------------------------------------------------------------- C10
\* C10: a trigger handled for a dedup key whose alert-state is resolved creates
\* no record and keeps the record's id: the alert-state becomes active with
\* resolve_requested false, the durable record becomes active with resolved_at
\* and resolve_requested cleared, and type and parent_dedup_key stay as they
\* were, in the alert-state and in the record.
C10_ReactivationReusesRecord ==
    \A event \in Events :
        LET k == event.dedupKey
            r == RunOf(event)
        IN  (/\ event.action = ActionTrigger
             /\ k \in DOMAIN alerts
             /\ alerts[k].status = AlertStatusResolved)
            =>
            /\ DOMAIN r.st.repoAlerts = DOMAIN repoAlerts
            /\ r.st.byDedupKey = byDedupKey
            /\ r.st.alerts[k].status = AlertStatusActive
            /\ r.st.alerts[k].resolveRequested = FALSE
            /\ r.st.alerts[k].type = alerts[k].type
            /\ r.st.alerts[k].parentDedupKey = alerts[k].parentDedupKey
            /\ RecordOf(r.st, k).id = RecordOf(Stores, k).id
            /\ RecordOf(r.st, k).status = AlertStatusActive
            /\ RecordOf(r.st, k).resolvedAt = <<>>
            /\ RecordOf(r.st, k).resolveRequested = FALSE
            /\ RecordOf(r.st, k).type = RecordOf(Stores, k).type
            /\ RecordOf(r.st, k).parentDedupKey = RecordOf(Stores, k).parentDedupKey
            /\ ~Made(r.f.calls, "Create")
            /\ r.f.err = ""

\* A resolved child and its resolved parent, each about to be triggered again.
C10_Witness ==
    \E e1 \in Events : \E e2 \in Events :
        /\ e1.action = ActionTrigger /\ e2.action = ActionTrigger
        /\ HasState(Stores, e1.dedupKey, AlertTypeChild, AlertStatusResolved)
        /\ RecordOf(Stores, e1.dedupKey).resolvedAt # <<>>
        /\ HasState(Stores, e2.dedupKey, AlertTypeParent, AlertStatusResolved)
        /\ RecordOf(Stores, e1.dedupKey).parentDedupKey = e2.dedupKey
        /\ RecordOf(Stores, e2.dedupKey).resolvedAt # <<>>
        /\ RecordOf(RunOf(e1).st, e1.dedupKey).status = AlertStatusActive
        /\ RecordOf(RunOf(e2).st, e2.dedupKey).status = AlertStatusActive

\* ---------------------------------------------------------------- C7
\* C7: in every reachable state, with several consumers handling messages of
\* different partition keys at once, the repository holds at most one active
\* record per dedup key.
ActiveRecordsOf(k) ==
    {id \in DOMAIN repoAlerts :
        repoAlerts[id].dedupKey = k /\ repoAlerts[id].status = AlertStatusActive}

C7_OneActiveRecordPerDedupKey ==
    \A k \in DedupKeys : Cardinality(ActiveRecordsOf(k)) <= 1

\* --------------------------------------------------------------- C11
\* C11: a resolve handled for a dedup key that has no alert-state, or whose
\* alert-state is already resolved, returns nil and changes nothing: the
\* alert-states, parent entries, children sets, pending-resolve entries and
\* durable records are as before, nothing is written and no notification is
\* sent.
C11_ResolveUnknownOrResolvedIsNoOp ==
    \A event \in Events :
        LET k == event.dedupKey
            r == RunOf(event)
        IN  (/\ event.action = ActionResolve
             /\ \/ k \notin DOMAIN alerts
                \/ alerts[k].status = AlertStatusResolved)
            =>
            /\ r.f.err = ""
            /\ r.st = Stores
            /\ r.f.calls = <<<<"GetAlert", k, 0>>>>

\* Both cases at a later instant: a dedup key never seen, and a resolved child
\* whose record carries an earlier resolved_at and whose parent is active.
C11_Witness ==
    \E e1 \in Events : \E e2 \in Events :
        /\ e1.action = ActionResolve /\ e2.action = ActionResolve
        /\ e1.dedupKey \notin DOMAIN alerts
        /\ HasState(Stores, e2.dedupKey, AlertTypeChild, AlertStatusResolved)
        /\ RecordOf(Stores, e2.dedupKey).resolvedAt # <<now>>
        /\ HasState(Stores, alerts[e2.dedupKey].parentDedupKey,
                    AlertTypeParent, AlertStatusActive)
        /\ RunOf(e1).st = Stores
        /\ RunOf(e2).st = Stores

\* --------------------------------------------------------------- C12
\* C12: a resolve handled for an active child whose parent has no
\* pending-resolve entry sets that child's alert-state to resolved and its
\* record to resolved with resolved_at = now, and nothing else: every other
\* alert-state and record (the parent's status, resolve_requested and
\* child_count, the siblings), the children sets, the parent entries and the
\* pending-resolve entries are as before, and no notification is sent.
C12_ChildResolveTouchesOnlyChild ==
    \A event \in Events :
        LET k == event.dedupKey
            P == alerts[k].parentDedupKey
            id == byDedupKey[k]
            r == RunOf(event)
        IN  (/\ event.action = ActionResolve
             /\ HasState(Stores, k, AlertTypeChild, AlertStatusActive)
             /\ HasRecord(Stores, k, AlertTypeChild, AlertStatusActive)
             /\ P \notin DOMAIN pendingResolves)
            =>
            /\ r.f.err = ""
            /\ r.st.alerts = [alerts EXCEPT ![k].status = AlertStatusResolved]
            /\ r.st.repoAlerts =
                    [repoAlerts EXCEPT ![id].status = AlertStatusResolved,
                                       ![id].resolvedAt = <<now>>]
            /\ r.st.children = children
            /\ r.st.parents = parents
            /\ r.st.pendingResolves = pendingResolves
            /\ r.st.byDedupKey = byDedupKey
            /\ ~Made(r.f.calls, "NotifyResolved")
            /\ ~Made(r.f.calls, "NotifyNewParent")

\* An active parent counting two children, one resolved and one still active,
\* with no resolve pending for the parent.
C12_Witness ==
    \E p \in DedupKeys :
        /\ HasState(Stores, p, AlertTypeParent, AlertStatusActive)
        /\ HasRecord(Stores, p, AlertTypeParent, AlertStatusActive)
        /\ RecordOf(Stores, p).childCount = 2
        /\ ~RecordOf(Stores, p).resolveRequested
        /\ p \notin DOMAIN pendingResolves
        /\ p \in DOMAIN children
        /\ \E c1 \in children[p] : \E c2 \in children[p] :
                /\ HasRecord(Stores, c1, AlertTypeChild, AlertStatusResolved)
                /\ RecordOf(Stores, c1).resolvedAt # <<>>
                /\ HasState(Stores, c1, AlertTypeChild, AlertStatusResolved)
                /\ HasRecord(Stores, c2, AlertTypeChild, AlertStatusActive)

\* --------------------------------------------------------------- C13
\* C13: with one Start call on the in-memory queue, the handler is called for
\* the messages in the order in which Publish put them on the channel, one at
\* a time (every message handed over before the latest one has left the
\* handler); and if the Publish of m1 had returned nil before the Publish of
\* m2 was called, then the handler has finished m1 by the time it is called
\* for m2.
C13_HandledInPublishOrder ==
    LET h == history.handled
    IN  /\ Len(h) <= Len(history.sent)
        /\ \A i \in 1..Len(h) : h[i] = history.sent[i]
        /\ \A i \in 1..(Len(h) - 1) : h[i] \in history.finished
        /\ start.pc = "handler" => start.msg = h[Len(h)] /\ start.msg \notin history.finished
        /\ \A i \in 1..Len(h) : \A m1 \in history.before[h[i]] :
                /\ \E j \in 1..(i - 1) : h[j] = m1
                /\ m1 \in history.finished

\* Three messages handled; the first two have the same key and the first
\* Publish had returned before the second was called; the third was published
\* while the second was still buffered.
C13_Witness ==
    LET h == history.handled
    IN  /\ Len(h) = 3
        /\ h[1].key = h[2].key
        /\ h[1] \in history.before[h[2]]
        /\ h[2] \notin history.before[h[3]]
        /\ h[1].id > h[2].id

\* --------------------------------------------------------------- C14
\* C14: in every interleaving of Publish and Close, no Publish call panics,
\* and a Publish called once Close has set closed returns ErrQueueClosed.
C14_PublishNeverPanics ==
    \A m \in DOMAIN history.result :
        /\ history.result[m] # "panic"
        /\ m \in history.afterClose => history.result[m] = "ErrQueueClosed"

\* --------------------------------------------------------------- C16
\* C16: once the context passed to Start is done, the loop calls the handler
\* for no further message.
C16_NoHandoffAfterCancel == ~history.handedAfterDone

\* --------------------------------------------------------------- C15
\* C15: the in-memory queue never silently drops a message.  At all times the
\* buffer holds at most bufferSize messages; a Publish at its select with a
\* full buffer on an open channel and a live context can take no step (it
\* blocks); a Publish that returned the context error did not enqueue its
\* message; the handler is called only for messages Publish put on the
\* channel, and at most once for each.  And every message for which Publish
\* returned nil is eventually handed to the handler, unless the consumer stops
\* (its context is cancelled or the process crashes).
Handed(m) == \E i \in 1..Len(history.handled) : history.handled[i] = m

Buffered(m) == \E i \in 1..Len(queue.messages.buf) : queue.messages.buf[i] = m

C15_Safety ==
    /\ Len(queue.messages.buf) <= BufferSize
    /\ \A p \in Publishers :
            (/\ publish[p].pc = "select"
             /\ Len(queue.messages.buf) = BufferSize
             /\ ~queue.messages.closed
             /\ ~publish[p].ctxDone)
            => ~ENABLED (PublishSend(p) \/ PublishSendOnClosed(p) \/ PublishCtxDone(p))
    /\ \A m \in DOMAIN history.result :
            /\ history.result[m] = "ctx.Err" => ~Buffered(m) /\ ~Handed(m)
            /\ history.result[m] = "nil" => Buffered(m) \/ Handed(m)
    /\ \A i \in 1..Len(history.handled) :
            /\ history.handled[i] \in DOMAIN history.result
            /\ history.result[history.handled[i]] = "nil"
            /\ \A j \in 1..Len(history.handled) :
                    history.handled[i] = history.handled[j] => i = j

C15_NoSilentDrop ==
    /\ []C15_Safety
    /\ \A m \in QueueMessages :
            (m \in DOMAIN history.result /\ history.result[m] = "nil")
                ~> (Handed(m) \/ start.ctxDone \/ Crashed)

\* A Publish returned the context error after waiting on the full buffer: the
\* two accepted messages are still buffered, in the order of their sends, for
\* the consumer that is at its select.
C15_Witness ==
    \E m \in DOMAIN history.result :
        /\ history.result[m] = "ctx.Err"
        /\ Len(queue.messages.buf) = BufferSize
        /\ queue.messages.buf = history.sent
        /\ start.pc = "select"
        /\ ~start.ctxDone
        /\ ~queue.closed

\* ---------------------------------------------------------------- C17
\* The finished IngestEvent calls, and what the claims ask of the event.
Ingests == {history.ingests[i] : i \in 1..Len(history.ingests)}
TenantKnown(event) == event.eventManagerID \in DOMAIN EventManagerRepo
RuleKnown(event) ==
    /\ TenantKnown(event)
    /\ EventManagerRepo[event.eventManagerID].groupingRuleID \in DOMAIN GroupingRuleRepo
SentWithId(id) ==
    {i \in 1..Len(history.sent) : history.sent[i].id = id}

\* C17: an IngestEvent call whose tenant and grouping rule exist and whose
\* Publish was accepted returns nil, and has published exactly one message:
\* its key is the partition key of (tenant id, grouping value) and its payload
\* is the event with partition_key, grouping_value and received_at added.  The
\* call returns as soon as Publish has: it does not wait for the handler.
C17_IngestPublishesOneMessage ==
    /\ \A e \in Ingests :
            (/\ RuleKnown(e.event)
             /\ e.msg # Nil
             /\ e.msg \in DOMAIN history.result
             /\ history.result[e.msg] = "nil")
            <=> e.err = ""
    /\ \A e \in Ingests :
            e.err = "" =>
                LET gv == ExtractGroupingValue(RuleOf(e.event), e.event)
                    m == e.msg
                IN  /\ Cardinality(SentWithId(e.id)) = 1
                    /\ \A i \in SentWithId(e.id) : history.sent[i] = m
                    /\ Cardinality({x \in history.called : x.id = e.id}) = 1
                    /\ m.key = computePartitionKey(e.event.eventManagerID, gv)
                    /\ \A f \in DOMAIN e.event : m.value[f] = e.event[f]
                    /\ DOMAIN m.value =
                            DOMAIN e.event \cup {"partitionKey", "groupingValue", "receivedAt"}
                    /\ m.value.partitionKey = m.key
                    /\ m.value.groupingValue = gv
                    /\ m.value.receivedAt \in 0..now
    /\ \A p \in Publishers :
            (~Crashed /\ ingest[p].pc = "Publish" /\ publish[p].pc = "idle")
                => ENABLED IngestReturn(p)

\* Witness: a call has returned nil while its message is still in the buffer,
\* handed to no handler, and no consumer has been started.
C17_Witness ==
    \E e \in Ingests :
        /\ e.err = ""
        /\ Buffered(e.msg)
        /\ ~Handed(e.msg)
        /\ start.pc = "idle"
        /\ e.msg.value.groupingValue = "db"

\* ---------------------------------------------------------------- C18
\* No message of call id exists: none was offered to Publish, sent or buffered.
NoMessageOf(id) ==
    /\ \A m \in history.called : m.id # id
    /\ SentWithId(id) = {}
    /\ \A i \in 1..Len(queue.messages.buf) : queue.messages.buf[i].id # id
    /\ \A p \in Publishers : publish[p].msg # Nil => publish[p].msg.id # id

C18_Results ==
    \A e \in Ingests :
        /\ (e.err # "ValidationError" /\ ~TenantKnown(e.event)) =>
                e.err = "ErrEventManagerNotFound" /\ e.msg = Nil /\ NoMessageOf(e.id)
        /\ (e.err # "ValidationError" /\ TenantKnown(e.event) /\ ~RuleKnown(e.event)) =>
                e.err = "ErrGroupingRuleNotFound" /\ e.msg = Nil /\ NoMessageOf(e.id)
        /\ (e.msg # Nil /\ history.result[e.msg] # "nil") =>
                e.err = "ErrPublishFailed" /\ SentWithId(e.id) = {}
        /\ e.err \in {"", "ValidationError", "ErrEventManagerNotFound",
                      "ErrGroupingRuleNotFound", "ErrPublishFailed"}

\* C18: IngestEvent returns ErrEventManagerNotFound for an unknown tenant and
\* ErrGroupingRuleNotFound for a tenant whose rule is missing, and the step
\* leaves the queue and every Publish call as they were: no message is
\* published.  When Publish fails the call returns ErrPublishFailed.
C18_LookupFailuresPublishNothing ==
    /\ []C18_Results
    /\ [][\A p \in Publishers : \A event \in IngestEvents :
            (IngestEvent(p, event) /\ ~RuleKnown(event))
                => (/\ UNCHANGED <<queue, publish, start>>
                    /\ history'.sent = history.sent
                    /\ history'.called = history.called
                    /\ Len(history'.ingests) = Len(history.ingests) + 1)]_vars

\* Witness: one call failed on the missing rule and another on a closed queue.
C18_Witness ==
    \E e1, e2 \in Ingests :
        /\ e1.err = "ErrGroupingRuleNotFound"
        /\ e2.err = "ErrPublishFailed"
        /\ history.result[e2.msg] = "ErrQueueClosed"

\* ---------------------------------------------------------------- C19
\* The validation rules of an event, as the claim states them.
Invalid(event) ==
    \/ event.eventManagerID = ""
    \/ event.summary = ""
    \/ event.severity \notin {"high", "medium", "low"}
    \/ event.action \notin {ActionTrigger, ActionResolve}
    \/ event.dedupKey = ""

C19_Rejected ==
    /\ \A e \in Ingests :
            Invalid(e.event) =>
                e.err = "ValidationError" /\ e.msg = Nil /\ NoMessageOf(e.id)
    /\ \A m \in history.called : ~Invalid(m.value)
    /\ \A p \in Publishers : ingest[p].event # Nil => ~Invalid(ingest[p].event)

HexDigits == {"0", "1", "2", "3", "4", "5", "6", "7", "8", "9",
              "a", "b", "c", "d", "e", "f"}

\* C20: the key IngestEvent gives a message depends on the tenant id and the
\* projected grouping value alone: two messages of the same tenant and
\* grouping value have equal keys whatever their action, dedup key, summary,
\* severity and time of arrival, and every key is 16 hexadecimal characters.
C20_PartitionKeyIsPure ==
    /\ \A m1, m2 \in history.called :
            (/\ m1.value.eventManagerID = m2.value.eventManagerID
             /\ m1.value.groupingValue = m2.value.groupingValue)
                => m1.key = m2.key
    /\ \A m \in history.called :
            /\ Len(m.key) = 16
            /\ \A i \in 1..Len(m.key) : m.key[i] \in HexDigits

\* Witness: two messages of tenant em1 and grouping value "db" that differ in
\* action, dedup key, summary, severity and time of arrival.
C20_Witness ==
    \E m1, m2 \in history.called :
        /\ m1.value.eventManagerID = m2.value.eventManagerID
        /\ m1.value.groupingValue = "db"
        /\ m2.value.groupingValue = "db"
        /\ m1.value.action # m2.value.action
        /\ m1.value.dedupKey # m2.value.dedupKey
        /\ m1.value.summary # m2.value.summary
        /\ m1.value.severity # m2.value.severity
        /\ m1.value.receivedAt # m2.value.receivedAt
        /\ m1.key = m2.key

\* ---------------------------------------------------------------- C21
\* The handler invocations in progress.
Running == {c \in Consumers : frames[c].fn # "done"}

\* C21: with one consumer per partition key, no two handler invocations in
\* progress at once have the same parent lookup entry (tenant, grouping key,
\* grouping value), and no two triggers of one grouping value both become
\* parents inside one window: any two parent records of one entry were
\* created more than the rule's window apart.
C21_OneHandlerPerParentEntry ==
    /\ \A c, d \in Running :
            c # d => SlotOf(frames[c].event) # SlotOf(frames[d].event)
    /\ \A id1, id2 \in DOMAIN repoAlerts :
            LET a1 == repoAlerts[id1]
                a2 == repoAlerts[id2]
            IN  (/\ id1 # id2
                 /\ a1.type = AlertTypeParent
                 /\ a2.type = AlertTypeParent
                 /\ SlotOf(a1) = SlotOf(a2)
                 /\ a1.createdAt <= a2.createdAt)
                    => a2.createdAt - a1.createdAt > TimeWindow(RuleOf(a1))

\* Witness: two triggers of different grouping values are creating their
\* parents at the same time, while an earlier parent of one of the two
\* entries is on record.
C21_Witness ==
    \E c, d \in Running :
        /\ c # d
        /\ frames[c].fn = "createParentAlert"
        /\ frames[d].fn = "createParentAlert"
        /\ \E id \in DOMAIN repoAlerts :
                /\ repoAlerts[id].type = AlertTypeParent
                /\ SlotOf(repoAlerts[id]) = SlotOf(frames[c].event)

\* ---------------------------------------------------------------- C22
\* The rules an event has to meet: every field is required, except that a
\* resolve may leave summary and class empty.
MeetsRules(event) ==
    /\ event.eventManagerID # ""
    /\ event.dedupKey # ""
    /\ event.severity \in {"high", "medium", "low"}
    /\ event.action \in {ActionTrigger, ActionResolve}
    /\ event.action = ActionResolve \/ (event.summary # "" /\ event.class # "")

\* C22: Event.Validate accepts an event exactly when it meets the rules; a
\* resolve with empty summary and class is accepted, a trigger with an empty
\* class is rejected with a validation error.
C22_ValidateMatchesRules ==
    \A e \in Ingests : (e.err # "ValidationError") <=> MeetsRules(e.event)

\* ---------------------------------------------------------------- C23
RecognizedKeys == {"class", "severity", "event_manager_id"}

\* C23: when the rule's grouping key is not a recognized field, or the
\* projected field is empty, the grouping value is the empty string and the
\* event is handled all the same; all such triggers of a tenant have one
\* partition key and one parent lookup entry: the first becomes the parent,
\* a later one inside the window becomes its child.
C23_EmptyGroupingValueIsOneGroup ==
    /\ \A event \in IngestEvents :
            (RuleKnown(event) /\ event.class = "")
                => /\ ExtractGroupingValue(RuleOf(event), event) = ""
                   /\ InternalEvent(event).partitionKey
                            = partitionKeys[event.eventManagerID, ""]
    /\ \A event \in Events :
            LET k == event.dedupKey
                slot == <<event.eventManagerID, RuleOf(event).groupingKey, "">>
                r == RunOf(event)
            IN  RuleOf(event).groupingKey \notin RecognizedKeys
                =>
                /\ InternalEvent(event).groupingValue = ""
                /\ InternalEvent(event).partitionKey
                        = partitionKeys[event.eventManagerID, ""]
                /\ SlotOf(event) = slot
                /\ r.f.err = ""
                /\ (event.action = ActionTrigger /\ k \notin DOMAIN alerts) =>
                        IF Live(slot)
                        THEN /\ HasRecord(r.st, k, AlertTypeChild, AlertStatusActive)
                             /\ RecordOf(r.st, k).parentDedupKey
                                    = parents[slot].state.dedupKey
                             /\ k \in r.st.children[parents[slot].state.dedupKey]
                             /\ r.st.parents = parents
                        ELSE /\ HasRecord(r.st, k, AlertTypeParent, AlertStatusActive)
                             /\ slot \in DOMAIN r.st.parents
                             /\ r.st.parents[slot].state.dedupKey = k
                             /\ DOMAIN r.st.parents = DOMAIN parents \cup {slot}

\* Witness: two triggers of tenant em2 (its rule names an unknown field) with
\* different classes; the first is the parent and the second its child.
C23_Witness ==
    \E p, c \in DedupKeys :
        /\ HasRecord(Stores, p, AlertTypeParent, AlertStatusActive)
        /\ HasRecord(Stores, c, AlertTypeChild, AlertStatusActive)
        /\ RecordOf(Stores, p).eventManagerID = "em2"
        /\ RecordOf(Stores, c).eventManagerID = "em2"
        /\ RecordOf(Stores, c).parentDedupKey = p
        /\ RecordOf(Stores, c).class # RecordOf(Stores, p).class
        /\ <<"em2", "host", "">> \in DOMAIN parents
        /\ parents[<<"em2", "host", "">>].state.dedupKey = p

\* ---------------------------------------------------------------- C24
\* C24: after every completely handled event, every durable alert record has
\* resolved_at set exactly when its status is resolved.
C24_ResolvedAtIffResolved ==
    \A id \in DOMAIN repoAlerts :
        (repoAlerts[id].resolvedAt # <<>>) <=> (repoAlerts[id].status = AlertStatusResolved)

\* Witness: a record resolved some time after its creation, whose resolved_at
\* a trigger for its dedup key clears as it makes the record active again.
C24_Witness ==
    \E id \in DOMAIN repoAlerts :
        /\ repoAlerts[id].status = AlertStatusResolved
        /\ repoAlerts[id].resolvedAt = <<now>>
        /\ repoAlerts[id].createdAt < now
        /\ \E event \in Events :
                /\ event.dedupKey = repoAlerts[id].dedupKey
                /\ event.action = ActionTrigger
                /\ RunOf(event).st.repoAlerts[id].status = AlertStatusActive
                /\ RunOf(event).st.repoAlerts[id].resolvedAt = <<>>

\* ---------------------------------------------------------------- C25
\* The dedup keys whose alert-state or indexed record has resolve_requested.
Requested(st) ==
    {k \in DOMAIN st.alerts : st.alerts[k].resolveRequested}
    \cup {st.repoAlerts[id].dedupKey : id \in {i \in DOMAIN st.repoAlerts :
                                                st.repoAlerts[i].resolveRequested}}

\* C25: after every completely handled event, an alert with resolve_requested
\* (in its alert-state or in a durable record) is a parent with status active,
\* and an event that sets the flag finds at least one active child of that
\* parent.
C25_ResolveRequestedOnlyOnActiveParent ==
    /\ \A k \in DOMAIN alerts :
            alerts[k].resolveRequested =>
                alerts[k].type = AlertTypeParent /\ alerts[k].status = AlertStatusActive
    /\ \A id \in DOMAIN repoAlerts :
            repoAlerts[id].resolveRequested =>
                /\ repoAlerts[id].type = AlertTypeParent
                /\ repoAlerts[id].status = AlertStatusActive
    /\ \A event \in Events :
            LET r == RunOf(event)
            IN  \A k \in Requested(r.st) \ Requested(Stores) :
                    /\ k = event.dedupKey
                    /\ event.action = ActionResolve
                    /\ CountActiveChildren(Stores, k) >= 1
                    /\ ActiveChildren(Stores, k) # {}

\* Witness: a parent with the flag in state and record, and an active child.
C25_Witness ==
    \E k \in DOMAIN alerts :
        /\ alerts[k].resolveRequested
        /\ HasRecord(Stores, k, AlertTypeParent, AlertStatusActive)
        /\ RecordOf(Stores, k).resolveRequested
        /\ ActiveChildren(Stores, k) # {}

LastInvocation == frames[1]
FailedCall ==
    IF LastInvocation.err = "ErrStoreUnavailable"
    THEN LastInvocation.calls[Len(LastInvocation.calls)][1]
    ELSE ""
Handling(internalEvent) == Run(Out(Stores, NewFrame(internalEvent)))

\* C27: when a state-store write has failed while a trigger was handled, the
\* handler has returned an error, and handling the same event again completes
\* the decision: the durable record of the dedup key exists, and either the
\* parent lookup entry names the alert and NotifyNewParent was called, or the
\* alert is in the children set of a parent.
C27_RedeliveryCompletesTrigger ==
    (/\ FailedCall \in {"SetAlert", "SetParent", "AddChild"}
     /\ LastInvocation.event.action = ActionTrigger)
    =>
    LET k == LastInvocation.event.dedupKey
        r == Handling(LastInvocation.event)
        slot == SlotOf(LastInvocation.event)
    IN  /\ RecordsOf(r.st, k) # {}
        /\ \/ /\ slot \in DOMAIN r.st.parents
              /\ r.st.parents[slot].state.dedupKey = k
              /\ Made(r.f.calls, "NotifyNewParent")
           \/ \E p \in DOMAIN r.st.children : k \in r.st.children[p]

\* ---------------------------------------------------------------- C28
\* C28: when AlertRepository.Create has failed after the state writes of
\* create-parent or create-child succeeded, the next trigger for the same
\* dedup key writes the durable record: after it the record exists.
C28_NextEventRetriesCreate ==
    (FailedCall = "Create" /\ LastInvocation.event.action = ActionTrigger)
    =>
    \A event \in FaultEvents :
        (event.action = ActionTrigger /\ event.dedupKey = LastInvocation.event.dedupKey)
            => RecordsOf(Handling(InternalEvent(event)).st, event.dedupKey) # {}

\* ---------------------------------------------------------------- C29
\* C29: after every completely handled event, a parent whose status is
\* resolved has no active child: CountActiveChildren for it is 0.
C29_ResolvedParentHasNoActiveChild ==
    \A id \in DOMAIN repoAlerts :
        (repoAlerts[id].type = AlertTypeParent
         /\ repoAlerts[id].status = AlertStatusResolved)
            => /\ CountActiveChildren(Stores, repoAlerts[id].dedupKey) = 0
               /\ ActiveChildren(Stores, repoAlerts[id].dedupKey) = {}

\* ---------------------------------------------------------------- C30
\* The records and alert-states that handling an event creates or changes.
TouchedRecords(r) ==
    {id \in DOMAIN r.st.repoAlerts :
        id \notin DOMAIN repoAlerts \/ r.st.repoAlerts[id] # repoAlerts[id]}
TouchedStates(r) ==
    {k \in DOMAIN r.st.alerts : k \notin DOMAIN alerts \/ r.st.alerts[k] # alerts[k]}

\* C30: an event of one tenant neither reads nor changes alerts of another
\* tenant: every record and alert-state it creates or changes is of its own
\* tenant, and a trigger whose tenant has no alert of that dedup key creates
\* the tenant's own alert, also when another tenant has an alert of that key.
C30_TenantIsolation ==
    \A event \in Events :
        LET r == RunOf(event)
            k == event.dedupKey
        IN  /\ \A id \in TouchedRecords(r) :
                    r.st.repoAlerts[id].eventManagerID = event.eventManagerID
            /\ \A d \in TouchedStates(r) :
                    r.st.alerts[d].eventManagerID = event.eventManagerID
            /\ (/\ event.action = ActionTrigger
                /\ \A id \in DOMAIN repoAlerts :
                        ~(/\ repoAlerts[id].dedupKey = k
                          /\ repoAlerts[id].eventManagerID = event.eventManagerID))
                => \E id \in DOMAIN r.st.repoAlerts :
                        /\ r.st.repoAlerts[id].dedupKey = k
                        /\ r.st.repoAlerts[id].eventManagerID = event.eventManagerID
                        /\ r.st.repoAlerts[id].status = AlertStatusActive

\* ---------------------------------------------------------------- C31
\* C31: a resolve for a dedup key is published under the partition key of the
\* trigger for that dedup key, also when the resolve leaves class empty.
C31_ResolveSharesTriggerKey ==
    \A m1, m2 \in history.called :
        (/\ m1.value.eventManagerID = m2.value.eventManagerID
         /\ m1.value.dedupKey = m2.value.dedupKey
         /\ m1.value.action = ActionTrigger
         /\ m2.value.action = ActionResolve)
            => m1.key = m2.key

\* The parent lookup entry that names k, if any.
NamedByParents(st, k) == \E slot \in DOMAIN st.parents : st.parents[slot].state.dedupKey = k

\* C32: in the handler invocation that has just returned, NotifyNewParent for k
\* is the last call and directly follows SetAlert, SetParent and Create for k,
\* in this order, none of which failed; SetParent is made only directly after
\* SetAlert; NotifyResolved for p follows SetAlert and Update for p.  When a
\* notification was made, the alert-state and the one durable record of the
\* alert show the notified status.
C32_WritesPrecedeNotification ==
    LET calls == LastInvocation.calls
    IN  /\ LastInvocation.err # "" => ~Made(calls, "NotifyNewParent")
        /\ \A i \in 1..Len(calls) :
            LET k == calls[i][2]
            IN  /\ calls[i][1] = "SetParent" =>
                        i > 1 /\ calls[i - 1] = <<"SetAlert", k, 0>>
                /\ calls[i][1] = "NotifyNewParent" =>
                        /\ i = Len(calls) /\ i > 3
                        /\ calls[i - 3] = <<"SetAlert", k, 0>>
                        /\ calls[i - 2] = <<"SetParent", k, 0>>
                        /\ calls[i - 1] = <<"Create", k, 0>>
                        /\ HasState(Stores, k, AlertTypeParent, AlertStatusActive)
                        /\ HasRecord(Stores, k, AlertTypeParent, AlertStatusActive)
                        /\ NamedByParents(Stores, k)
                /\ calls[i][1] = "NotifyResolved" =>
                        /\ \E j \in 1..(i - 1) : \E l \in (j + 1)..(i - 1) :
                                /\ calls[j] = <<"SetAlert", k, 0>>
                                /\ calls[l] = <<"Update", k, 0>>
                        /\ HasState(Stores, k, AlertTypeParent, AlertStatusResolved)
                        /\ HasRecord(Stores, k, AlertTypeParent, AlertStatusResolved)

\* Witness: a parent has just been created and notified while another parent,
\* resolved and notified before, is on record.
C32_Witness ==
    /\ Made(LastInvocation.calls, "NotifyNewParent")
    /\ \E k \in DedupKeys : HasRecord(Stores, k, AlertTypeParent, AlertStatusResolved)

\* The parent records a run has created, and whether it has moved parent p from
\* active to resolved in the state store and in the durable record.
CreatedParents(st) ==
    {id \in DOMAIN st.repoAlerts \ DOMAIN repoAlerts :
        st.repoAlerts[id].type = AlertTypeParent}
MovedToResolved(st, p) ==
    /\ HasState(Stores, p, AlertTypeParent, AlertStatusActive)
    /\ HasState(st, p, AlertTypeParent, AlertStatusResolved)
    /\ HasRecord(st, p, AlertTypeParent, AlertStatusResolved)

\* C33: handling an event calls NotifyNewParent once for each parent record it
\* creates and for nothing else (not for a child, a duplicate trigger or a
\* reactivation), and calls NotifyResolved for p at most once and only when it
\* moves parent p from active to resolved (not when a child resolves and the
\* parent stays as it is, and not when the parent's resolve is deferred).
C33_NotificationsMatchTransitions ==
    \A event \in Events :
        LET r == RunOf(event)
            calls == r.f.calls
        IN  /\ \A k \in DedupKeys :
                /\ Count(calls, <<"NotifyNewParent", k, 0>>) =
                        Cardinality({id \in CreatedParents(r.st) :
                                        r.st.repoAlerts[id].dedupKey = k})
                /\ Count(calls, <<"NotifyResolved", k, 0>>) =
                        (IF MovedToResolved(r.st, k) THEN 1 ELSE 0)
            /\ \A i \in 1..Len(calls) :
                    calls[i][1] \in {"NotifyNewParent", "NotifyResolved"}
                        => calls[i][2] \in DedupKeys /\ calls[i][3] = 0

\* Witness: a pending parent resolve with one active child left, whose
\* resolution will complete the parent and notify once.
C33_Witness ==
    \E event \in Events :
        /\ event.action = ActionResolve
        /\ HasState(Stores, event.dedupKey, AlertTypeChild, AlertStatusActive)
        /\ Made(RunOf(event).f.calls, "NotifyResolved")

\* C34: in every state between handled events, a dedup key has an alert-state
\* exactly when it has a durable record, and the two agree on type, status,
\* parent_dedup_key and resolve_requested.
C34_StateMirrorsRecord ==
    \A k \in DedupKeys :
        /\ (k \in DOMAIN alerts) <=> (RecordsOf(Stores, k) # {})
        /\ k \in DOMAIN alerts =>
            \A id \in RecordsOf(Stores, k) :
                /\ alerts[k].type = repoAlerts[id].type
                /\ alerts[k].status = repoAlerts[id].status
                /\ alerts[k].parentDedupKey = repoAlerts[id].parentDedupKey
                /\ alerts[k].resolveRequested = repoAlerts[id].resolveRequested

\* Witness: a parent whose resolve is deferred (flag set in the alert-state and
\* in the record) next to a child that has been resolved.
C34_Witness ==
    \E p, c \in DedupKeys :
        /\ HasState(Stores, p, AlertTypeParent, AlertStatusActive)
        /\ alerts[p].resolveRequested /\ RecordOf(Stores, p).resolveRequested
        /\ HasState(Stores, c, AlertTypeChild, AlertStatusResolved)
        /\ RecordOf(Stores, c).parentDedupKey = p

\* C35: in every state between handled events, a pending-resolve entry of a
\* parent carries the number of the parent's active children.
C35_RemainingChildrenIsActiveCount ==
    \A p \in DOMAIN pendingResolves :
        pendingResolves[p].remainingChildren = CountActiveChildren(Stores, p)

\* The durable child records that name p as their parent.
ChildRecords(st, p) ==
    {id \in DOMAIN st.repoAlerts :
        /\ st.repoAlerts[id].type = AlertTypeChild
        /\ st.repoAlerts[id].parentDedupKey = p}

\* C36: in every state between handled events, the child_count of each parent
\* record equals the size of the parent's children set in the state store and
\* the number of durable child records that name the parent.
C36_ChildCountsAgree ==
    \A id \in DOMAIN repoAlerts :
        repoAlerts[id].type = AlertTypeParent =>
            LET p == repoAlerts[id].dedupKey
            IN  /\ repoAlerts[id].childCount = GetChildCount(Stores, p)
                /\ repoAlerts[id].childCount = Cardinality(ChildRecords(Stores, p))

\* Witness: a parent with two children on record.
C36_Witness ==
    \E id \in DOMAIN repoAlerts :
        /\ repoAlerts[id].type = AlertTypeParent
        /\ repoAlerts[id].childCount = 2
        /\ Cardinality(ChildRecords(Stores, repoAlerts[id].dedupKey)) = 2

\* The child records a run has created.
CreatedChildren(st) ==
    {id \in DOMAIN st.repoAlerts \ DOMAIN repoAlerts :
        st.repoAlerts[id].type = AlertTypeChild}

\* C37: handling an event that creates a child leaves every parent lookup
\* entry, the one of the child's parent included, with the dedup key, the
\* created_at and the expiry it had.
C37_ChildKeepsParentLookup ==
    \A event \in Events :
        LET r == RunOf(event)
        IN  CreatedChildren(r.st) # {} =>
                /\ DOMAIN r.st.parents = DOMAIN parents
                /\ \A slot \in DOMAIN parents :
                    /\ r.st.parents[slot].state.dedupKey = parents[slot].state.dedupKey
                    /\ r.st.parents[slot].state.createdAt = parents[slot].state.createdAt
                    /\ r.st.parents[slot].expiresAt = parents[slot].expiresAt

\* Witness: a second child has been created later than its parent, whose
\* lookup entry still expires one window after the parent's creation.
C37_Witness ==
    \E slot \in DOMAIN parents :
        LET P == parents[slot].state.dedupKey
        IN  /\ Cardinality(ChildRecords(Stores, P)) = 2
            /\ \E id \in ChildRecords(Stores, P) :
                    repoAlerts[id].createdAt > parents[slot].state.createdAt
            /\ parents[slot].expiresAt = parents[slot].state.createdAt + 1

\* ------------------------------------- ingest, queue and processor in a row
\* The number of messages published in a run of the pipeline.
MaxPipelined == 3

\* The events posted to the pipeline: one tenant, one class, two dedup keys.
PipelineEvents ==
    {event \in Events : /\ event.eventManagerID = "em1"
                        /\ event.class = "db"
                        /\ event.dedupKey \in {"a", "b"}}

\* Payloads on the topic that IngestEvent has not written: bytes that are not
\* JSON, and the JSON of an internal event whose action the processor does not
\* know.
ForeignPayloads ==
    {[text |-> "not json"]} \cup
    {[InternalEvent(event) EXCEPT !.action = "acknowledge"] @@ [receivedAt |-> 0] :
        event \in {e \in PipelineEvents : e.dedupKey = "a" /\ e.action = ActionTrigger}}

\* json.Unmarshal(msg.Value, &event): an error for bytes that are not JSON.
jsonUnmarshal(value) ==
    IF "text" \in DOMAIN value
    THEN [err |-> "invalid character", event |-> Nil]
    ELSE [err |-> "", event |-> value]

\* handleMessage(ctx, msg) run to its return: a payload that cannot be
\* deserialized is logged and nil is returned.
handleMessageOf(st, msg) ==
    LET u == jsonUnmarshal(msg.value)
    IN  IF u.err # "" THEN Out(st, Return(DoneFrame, ""))
        ELSE Run(Out(st, NewFrame(u.event)))

\* IngestEvent stamps the event with the time of receipt and Publish puts the
\* message into the queue's buffer.
PipelineIngest(event) ==
    LET id == history.serial + 1
        msg == NewMessage(id, InternalEvent(event) @@ [receivedAt |-> now])
    IN  /\ id <= MaxPipelined
        /\ Len(queue.messages.buf) < BufferSize
        /\ queue' = [queue EXCEPT !.messages = chanSend(@, msg)]
        /\ history' = [history EXCEPT !.serial = id, !.called = @ \cup {msg}]
        /\ UNCHANGED <<publish, start, closeCall, ingest, storeVars>>

\* Another producer publishes a payload to the queue.
PipelineForeign(payload) ==
    LET id == history.serial + 1
        msg == [id |-> id, key |-> <<>>, value |-> payload, headers |-> Nil]
    IN  /\ id <= MaxPipelined
        /\ Len(queue.messages.buf) < BufferSize
        /\ queue' = [queue EXCEPT !.messages = chanSend(@, msg)]
        /\ history' = [history EXCEPT !.serial = id, !.called = @ \cup {msg}]
        /\ UNCHANGED <<publish, start, closeCall, ingest, storeVars>>

\* Queue.Start takes the oldest message and calls the handler; whatever the
\* handler returns, the loop goes on with the next message.  frames[1] keeps
\* the invocation that returned.
PipelineHandle ==
    /\ queue.messages.buf # <<>>
    /\ LET r == handleMessageOf(Stores, chanRecv(queue.messages).msg)
       IN  /\ SetStores(r.st)
           /\ frames' = [frames EXCEPT ![1] = r.f]
    /\ queue' = [queue EXCEPT !.messages = chanRecv(@).ch]
    /\ UNCHANGED <<now, received, publish, start, closeCall, history, ingest>>

PipelineNext ==
    \/ \E event \in PipelineEvents : PipelineIngest(event)
    \/ \E payload \in ForeignPayloads : PipelineForeign(payload)
    \/ PipelineHandle
    \/ Tick

PipelineSpec == Init /\ [][PipelineNext]_vars

\* ---------------------------------------------------------------- C38
\* The triggers published for a dedup key, and the one published first.
TriggersOf(k) ==
    {m \in history.called :
        /\ "action" \in DOMAIN m.value
        /\ m.value.action = ActionTrigger
        /\ m.value.dedupKey = k}
FirstTrigger(k) == CHOOSE m \in TriggersOf(k) : \A n \in TriggersOf(k) : m.id <= n.id

\* C38: the created_at of every durable record is the received_at that
\* IngestEvent gave to the first trigger published for the record's dedup key.
C38_CreatedAtIsFirstReceipt ==
    \A id \in DOMAIN repoAlerts :
        LET k == repoAlerts[id].dedupKey
        IN  /\ TriggersOf(k) # {}
            /\ repoAlerts[id].createdAt = FirstTrigger(k).value.receivedAt

\* ---------------------------------------------------------------- C39
\* A payload the processor cannot act on: not JSON, or an action that is
\* neither trigger nor resolve.
Unprocessable(value) ==
    \/ "action" \notin DOMAIN value
    \/ value.action \notin {ActionTrigger, ActionResolve}

\* C39: a step in which the consumer takes an unprocessable message off the
\* queue leaves the state store and the repository as they are; the handler
\* has returned nil and has called no collaborator, so nothing was notified;
\* the message is gone from the queue and the next one is at its head.
C39_UnprocessableIsAcknowledged ==
    [][(/\ queue.messages.buf # <<>>
        /\ Unprocessable(Head(queue.messages.buf).value)
        /\ queue'.messages.buf = Tail(queue.messages.buf))
            => /\ Stores' = Stores
               /\ frames'[1].err = ""
               /\ frames'[1].calls = <<>>]_vars

\* Witness: the handler has returned from a message with an unknown action
\* while alerts exist and the next message waits in the queue.
C39_Witness ==
    /\ "action" \in DOMAIN LastInvocation.event
    /\ LastInvocation.event.action = "acknowledge"
    /\ DOMAIN repoAlerts # {}
    /\ queue.messages.buf # <<>>

\* ---------------------------------------------------------------- C40
\* C40: Close returns only when no Start call is running and every message
\* handed to the handler has been finished; once Close has returned, a further
\* Close finds the queue closed and returns with the channel closed once and
\* the lock free; and a Close that waits for the Start calls returns, unless a
\* send on the closed channel has brought the process down.
C40_CloseWaitsAndIsIdempotent ==
    /\ [][(closeCall.pc = "wg.Wait" /\ closeCall'.pc = "returned")
            => /\ start.pc \notin {"select", "handler"}
               /\ \A i \in 1..Len(history.handled) :
                    history.handled[i] \in history.finished]_vars
    /\ [][closeCall.pc = "returned"
            => /\ closeCall'.pc = "returned"
               /\ queue'.closed /\ queue'.messages.closed
               /\ queue'.mu = "unlocked"]_vars
    /\ (closeCall.pc = "wg.Wait") ~> (closeCall.pc = "returned" \/ Crashed)

\* Witness: Close has returned after a Start call that had handled a message.
C40_Witness ==
    /\ closeCall.pc = "returned"
    /\ start.pc = "returned"
    /\ history.handled # <<>>
    /\ ~Crashed

============================================================================
